---------------------------- MODULE Spec2Model ----------------------------
(***************************************************************************)
(* A model of the convolutional STFT engine (src/models/conv_stft.py) and  *)
(* of the multi-resolution APC-SNR loss compositor                         *)
(* (src/models/APC_SNR/apc_snr.py).                                        *)
(*                                                                         *)
(* Numbers.  The program computes in floating point; the model computes    *)
(* the same expressions in exact rational arithmetic.  A tensor of         *)
(* rationals is kept as integer numerators over one common denominator     *)
(* ([num |-> ..., den |-> ...]).  Window samples are multiples of          *)
(* 1/WinDen, Fourier kernels of size 1, 2 and 4 have entries in            *)
(* {-1, 0, 1}, and the pseudo-inverse of a full-column-rank kernel K is    *)
(* K (K^T K)^-1, kept as adj(K^T K) over det(K^T K).  Rounding to float32  *)
(* is not modelled.                                                        *)
(***************************************************************************)
EXTENDS Integers, Sequences, FiniteSets, TLC

VARIABLES
    sig,       \* the caller's input tensor
    stft,      \* the STFT instance (conv_stft.STFT), or the outcome of a failed construction
    ctor,      \* the arguments of the construction, and the instance as __init__ left it
    ret,       \* the last call on the instance: operation, argument, value or error
    wavs,      \* the caller's (est_time_domain, clean) tensors
    hopsObj,   \* the caller's `hops` object handed to APC_SNR_multi_filter
    apcArgs,   \* the arguments of the compositor's construction, as they were passed
    apc,       \* the APC_SNR_multi_filter instance, or the outcome of a failed construction
    apcRet,    \* the last compositor call: arguments, instance before the call, value
    apcLog,    \* every (arguments, value) pair a completed forward call produced
    fnArgs,    \* the arguments of the last call of a module-level function
    fnRet      \* the function called and the value it returned

vars == <<sig, stft, ctor, ret, wavs, hopsObj, apcArgs, apc, apcRet, apcLog, fnArgs, fnRet>>

stftVars == <<sig, stft, ctor, ret>>

apcVars == <<wavs, hopsObj, apcArgs, apc, apcRet, apcLog>>

fnVars == <<fnArgs, fnRet>>

---------------------------------------------------------------------------
(* Bounds of the model.                                                    *)

\* longest input signal, in samples
MaxLen == 3

\* largest hop size tried
MaxHop == 2

\* denominator of window samples: a periodic Hann sample is
\* 0.5 - 0.5 cos(2 pi k / n) = (2 - 2 cos(2 pi k / n)) / 4
WinDen == 2 * 2

\* 1e-8, the additive epsilon of the overlap-add normalisation, is 1 / EpsDen
EpsDen == 100000000

\* 1e-4, the round-trip tolerance, is 1 / TolDen; EpsDen = TolDen * TolDen
TolDen == 100 * 100

\* frame lengths whose periodic Hann window is rational over WinDen
FrameLens == {1, 2, 3, 4}

\* sample values of the input signals
Samples == {-1, 2}

---------------------------------------------------------------------------
(* Arithmetic helpers.                                                     *)

Abs(i) == IF i < 0 THEN -i ELSE i

Min(a, b) == IF a <= b THEN a ELSE b

Max(a, b) == IF a >= b THEN a ELSE b

RECURSIVE SumSeq(_)
SumSeq(s) == IF s = <<>> THEN 0 ELSE Head(s) + SumSeq(Tail(s))

RECURSIVE Pow2(_)
Pow2(e) == IF e <= 0 THEN 1 ELSE 2 * Pow2(e - 1)

\* np.ceil(np.log2(n)) for n >= 1: the least e with 2^e >= n
RECURSIVE CeilLog2From(_, _)
CeilLog2From(n, e) == IF Pow2(e) >= n THEN e ELSE CeilLog2From(n, e + 1)

\* mutant of CeilLog2: np.floor for np.ceil
FloorLog2(n) ==
    LET e == CeilLog2From(n, 0)
    IN  IF Pow2(e) = n THEN e ELSE e - 1

CeilLog2(n) == CeilLog2From(n, 0)

\* python's  a[lo:hi]  on a sequence (0-based, hi exclusive, clipped)
Slice(s, lo, hi) ==
    LET l == Min(Max(lo, 0), Len(s))
        h == Min(Max(hi, 0), Len(s))
    IN  IF h <= l THEN <<>> ELSE [i \in 1..(h - l) |-> s[l + i]]

---------------------------------------------------------------------------
(* Small dense integer matrices: a matrix is a sequence of rows.           *)

NRows(M) == Len(M)

NCols(M) == IF Len(M) = 0 THEN 0 ELSE Len(M[1])

Transpose(M) == [j \in 1..NCols(M) |-> [i \in 1..NRows(M) |-> M[i][j]]]

MatMul(A, B) ==
    [i \in 1..NRows(A) |->
        [j \in 1..NCols(B) |->
            SumSeq([k \in 1..NCols(A) |-> A[i][k] * B[k][j]])]]

DropAt(s, i) == [k \in 1..(Len(s) - 1) |-> IF k < i THEN s[k] ELSE s[k + 1]]

Minor(M, i, j) == [r \in 1..(Len(M) - 1) |-> DropAt(DropAt(M, i)[r], j)]

Sign(k) == IF k % 2 = 0 THEN 1 ELSE -1

RECURSIVE Det(_)
Det(M) ==
    IF Len(M) = 0 THEN 1
    ELSE IF Len(M) = 1 THEN M[1][1]
    ELSE SumSeq([j \in 1..Len(M) |-> Sign(1 + j) * M[1][j] * Det(Minor(M, 1, j))])

Adjugate(M) ==
    [i \in 1..Len(M) |-> [j \in 1..Len(M) |-> Sign(i + j) * Det(Minor(M, j, i))]]

Eye(n) == [i \in 1..n |-> [j \in 1..n |-> IF i = j THEN 1 ELSE 0]]

---------------------------------------------------------------------------
(* Windows: scipy.signal.get_window(name, n, fftbins=True).                *)

\* 2 cos(2 pi k / n) for the n whose values are integers
TwoCos(k, n) ==
    CASE n = 1 -> 2
      [] n = 2 -> IF k % 2 = 0 THEN 2 ELSE -2
      [] n = 3 -> IF k % 3 = 0 THEN 2 ELSE -1
      [] n = 4 -> <<2, 0, -2, 0>>[(k % 4) + 1]

\* the window names tried that scipy knows
KnownWindows == {"hann"}

\* get_window(name, n, fftbins=True), numerators over WinDen; a window of
\* one sample or less is all ones
get_window(name, n) ==
    CASE name = "hann" ->
            IF n <= 1 THEN [k \in 1..n |-> WinDen]
            ELSE [k \in 1..n |-> 2 - TwoCos(k - 1, n)]

\* the `win` arguments tried: names, and arrays of nframe samples
WinNames == {"hann", "hann sqrt", "hanning sqrt"}

\* np.sqrt(get_window("boxcar", n)) for every n,
\* np.sqrt(get_window("hann", n)) where it is rational (n <= 2), and the
\* two-sample window np.array([0.5, 1.0]), uneven and without a zero sample
WinArrays(n) ==
    {[k \in 1..n |-> WinDen]} \cup
    (IF n = 2 THEN {<<0, WinDen>>, <<WinDen \div 2, WinDen>>} ELSE {})

WinArgs(n) ==
    {[kind |-> "str", name |-> w, data |-> <<>>] : w \in WinNames} \cup
    {[kind |-> "ndarray", name |-> "", data |-> a] : a \in WinArrays(n)}

\* lines 52-62 of init_conv_stft_kernels: the window, or the exception raised.
\* The "hann sqrt" branch reads the unbound name `nframe` (not self.nframe).
SelectWindow(win, nframe) ==
    IF win.kind = "str"
    THEN IF win.name = "hann sqrt"
         THEN [err |-> "NameError", window |-> <<>>]
         ELSE IF win.name \in KnownWindows
              THEN [err |-> "", window |-> get_window(win.name, nframe)]
              ELSE [err |-> "ValueError", window |-> <<>>]
    ELSE [err |-> "", window |-> win.data]

---------------------------------------------------------------------------
(* Kernels: STFT.init_conv_stft_kernels.                                   *)

\* entry (n, k) of np.fft.rfft(np.eye(N)), n and k from 0: exp(-2 pi i k n / N),
\* for N in {1, 2, 4}, as <<real, imaginary>>
RfftEye(N, n, k) ==
    LET q == (k * n * (4 \div N)) % 4
    IN  << <<1, 0, -1, 0>>[q + 1], <<0, -1, 0, 1>>[q + 1] >>

\* np.fft.rfft(np.eye(N))[: nframe], a (min(N, nframe)) x (N // 2 + 1) matrix
\* of <<real, imaginary>> pairs
fourier_basis(N, nframe) ==
    [n \in 1..Min(N, nframe) |-> [k \in 1..((N \div 2) + 1) |-> RfftEye(N, n - 1, k - 1)]]

kernel_r(N, nframe) ==
    LET fb == fourier_basis(N, nframe)
    IN  [n \in 1..Len(fb) |-> [k \in 1..Len(fb[n]) |-> fb[n][k][1]]]

kernel_i(N, nframe) ==
    LET fb == fourier_basis(N, nframe)
    IN  [n \in 1..Len(fb) |-> [k \in 1..Len(fb[n]) |-> fb[n][k][2]]]

\* np.concatenate([kernel_r, kernel_i], axis=1).T : 2 (N // 2 + 1) rows
\* (real parts first, imaginary parts after), one column per time sample
UnwindowedKernel(N, nframe) ==
    LET kr == kernel_r(N, nframe)
        ki == kernel_i(N, nframe)
    IN  Transpose([n \in 1..Len(kr) |-> kr[n] \o ki[n]])

\* mutant of PinvT: the kernel itself (kernel.T.T for np.linalg.pinv(kernel).T)
PinvTNotInverted(K) == [num |-> K, den |-> 1]

\* np.linalg.pinv(kernel).T for a kernel of full column rank:
\* pinv(K) = (K^T K)^-1 K^T, so pinv(K).T = K adj(K^T K) / det(K^T K)
PinvT(K) ==
    LET G == MatMul(Transpose(K), K)
    IN  [num |-> MatMul(K, Adjugate(G)), den |-> Det(G)]

\* numpy broadcasting of  kernel * window  (kernel: rows x cols, window: n):
\* the shapes agree when cols = n, cols = 1 or n = 1
BroadcastOK(cols, n) == cols = n \/ cols = 1 \/ n = 1

TimesWindow(M, window) ==
    LET cols == NCols(M)
        n    == Len(window)
        w    == Max(cols, n)
    IN  [c \in 1..NRows(M) |->
            [m \in 1..w |-> M[c][IF cols = 1 THEN 1 ELSE m]
                            * window[IF n = 1 THEN 1 ELSE m]]]

\* mutant of init_conv_stft_kernels: the kernel windowed before the
\* pseudo-inversion (pinv(kernel * window) for pinv(kernel) * window)
KernelsWindowedFirst(nframe, nfft, win, inverse) ==
    LET sel == SelectWindow(win, nframe)
        K   == UnwindowedKernel(nfft, nframe)
    IN  IF sel.err # ""
        THEN [err |-> sel.err, kernel |-> [num |-> <<>>, den |-> 1], window |-> <<>>]
        ELSE IF ~BroadcastOK(NCols(K), Len(sel.window))
        THEN [err |-> "ValueError", kernel |-> [num |-> <<>>, den |-> 1], window |-> <<>>]
        ELSE LET Kw == TimesWindow(K, sel.window)
                 P  == IF inverse THEN PinvT(Kw) ELSE [num |-> Kw, den |-> 1]
             IN  [err |-> "",
                  kernel |-> [num |-> P.num,
                              den |-> IF inverse THEN P.den ELSE WinDen],
                  window |-> sel.window]

\* init_conv_stft_kernels(win, inverse) given self.nframe and self.nfft:
\* [err, kernel (numerators and denominator), window]
init_conv_stft_kernels(nframe, nfft, win, inverse) ==
    LET sel == SelectWindow(win, nframe)
        K   == UnwindowedKernel(nfft, nframe)
        P   == IF inverse THEN PinvT(K) ELSE [num |-> K, den |-> 1]
    IN  IF sel.err # ""
        THEN [err |-> sel.err, kernel |-> [num |-> <<>>, den |-> 1], window |-> <<>>]
        ELSE IF ~BroadcastOK(NCols(K), Len(sel.window))
        THEN [err |-> "ValueError", kernel |-> [num |-> <<>>, den |-> 1], window |-> <<>>]
        ELSE [err |-> "",
              kernel |-> [num |-> TimesWindow(P.num, sel.window), den |-> P.den * WinDen],
              window |-> sel.window]

---------------------------------------------------------------------------
(* STFT.__init__                                                           *)

\* what a failed construction, or a state with no instance, leaves behind
NoSTFT(status) ==
    [status |-> status, nframe |-> 0, nhop |-> 0, nfft |-> 0, pad |-> 0,
     weight |-> [num |-> <<>>, den |-> 1], inv_weight |-> [num |-> <<>>, den |-> 1],
     window |-> <<>>, enframe |-> <<>>]

\* line 29
PadOf(nframe, center) == IF center THEN nframe \div 2 ELSE 0

\* lines 31-35: int(2 ** np.ceil(np.log2(nframe))) when nfft is None
NfftOf(nframe, nfft_given, nfft) ==
    IF nfft_given THEN nfft ELSE Pow2(CeilLog2(nframe))

\* STFT(nframe, nhop, nfft, win, center): the instance, or the exception
STFT_init(a) ==
    LET N   == NfftOf(a.nframe, a.nfft_given, a.nfft)
        fwd == init_conv_stft_kernels(a.nframe, N, a.win, FALSE)
        inv == init_conv_stft_kernels(a.nframe, N, a.win, TRUE)
    IN  IF fwd.err # "" THEN NoSTFT(fwd.err)
        ELSE IF inv.err # "" THEN NoSTFT(inv.err)
        ELSE [status |-> "ok", nframe |-> a.nframe, nhop |-> a.nhop, nfft |-> N,
              pad |-> PadOf(a.nframe, a.center),
              weight |-> fwd.kernel, inv_weight |-> inv.kernel,
              window |-> fwd.window, enframe |-> Eye(a.nframe)]

---------------------------------------------------------------------------
(* STFT.transform                                                          *)

Zeros(n) == [i \in 1..n |-> 0]

\* F.pad(x, (pad, pad)): constant zero padding of the last axis
PadSignal(x, pad) == Zeros(pad) \o x \o Zeros(pad)

\* mutant of ConvFrames: the "+ 1" forgotten
ConvFramesNoPlusOne(n, ksize, stride) == (n - ksize) \div stride

\* number of output positions of a stride-`stride` convolution of a kernel
\* of `ksize` samples over `n` samples
ConvFrames(n, ksize, stride) == ((n - ksize) \div stride) + 1

\* F.conv1d(x, weight, stride) for x of one channel: [b][c][t]
Conv1d(xs, W, stride) ==
    [b \in 1..Len(xs) |->
        [c \in 1..NRows(W) |->
            [t \in 1..ConvFrames(Len(xs[b]), NCols(W), stride) |->
                SumSeq([m \in 1..NCols(W) |-> W[c][m] * xs[b][(t - 1) * stride + m]])]]]

\* mutant of SplitStack: imaginary part stacked first
SplitStackSwapped(out_complex, dim) ==
    [b \in 1..Len(out_complex) |->
        LET rows  == out_complex[b]
            real  == Slice(rows, 0, dim)
            imag  == Slice(rows, dim, Len(rows))
            T     == IF Len(rows) = 0 THEN 0 ELSE Len(rows[1])
        IN  << [t \in 1..T |-> [f \in 1..Len(imag) |-> imag[f][t]]],
               [t \in 1..T |-> [f \in 1..Len(real) |-> real[f][t]]] >>]

\* lines 104-110: split the channels at dim, stack, transpose: [b][ch][t][f]
SplitStack(out_complex, dim) ==
    [b \in 1..Len(out_complex) |->
        LET rows  == out_complex[b]
            real  == Slice(rows, 0, dim)
            imag  == Slice(rows, dim, Len(rows))
            T     == IF Len(rows) = 0 THEN 0 ELSE Len(rows[1])
        IN  << [t \in 1..T |-> [f \in 1..Len(real) |-> real[f][t]]],
               [t \in 1..T |-> [f \in 1..Len(imag) |-> imag[f][t]]] >>]

\* STFT.transform(x): x is [rank |-> 2 or 3, data |-> the B signals]
transform(self, x) ==
    LET xp == [b \in 1..Len(x.data) |-> PadSignal(x.data[b], self.pad)]
        P  == IF Len(xp) = 0 THEN 0 ELSE Len(xp[1])
    IN  IF self.nhop <= 0 \/ P < NCols(self.weight.num)
        THEN [err |-> "RuntimeError", val |-> [num |-> <<>>, den |-> 1]]
        ELSE [err |-> "",
              val |-> [num |-> SplitStack(Conv1d(xp, self.weight.num, self.nhop),
                                          (self.nfft \div 2) + 1),
                       den |-> self.weight.den]]

---------------------------------------------------------------------------
(* STFT.inverse                                                            *)

\* mutant of PackChannels: the imaginary channels first (cat([i, r], dim=-1))
PackChannelsSwapped(spec) ==
    [b \in 1..Len(spec) |->
        LET r == spec[b][1]
            i == spec[b][2]
            F == IF Len(r) = 0 THEN 0 ELSE Len(r[1])
            G == IF Len(i) = 0 THEN 0 ELSE Len(i[1])
        IN  [c \in 1..(F + G) |->
                [t \in 1..Len(r) |-> IF c <= G THEN i[t][c] ELSE r[t][c - G]]]]

\* lines 116-117: cat([r, i], dim=-1).transpose(-1, -2): [b][c][t]
PackChannels(spec) ==
    [b \in 1..Len(spec) |->
        LET r == spec[b][1]
            i == spec[b][2]
            F == IF Len(r) = 0 THEN 0 ELSE Len(r[1])
            G == IF Len(i) = 0 THEN 0 ELSE Len(i[1])
        IN  [c \in 1..(F + G) |->
                [t \in 1..Len(r) |-> IF c <= F THEN r[t][c] ELSE i[t][c - F]]]]

\* length of a stride-`stride` transposed convolution of T frames
OlaLen(T, ksize, stride) == (T - 1) * stride + ksize

\* F.conv_transpose1d(inputs, W, stride) with one output channel: [b][n]
ConvTranspose1d(inputs, W, stride) ==
    [b \in 1..Len(inputs) |->
        LET T == IF Len(inputs[b]) = 0 THEN 0 ELSE Len(inputs[b][1])
        IN  [n \in 1..OlaLen(T, NCols(W), stride) |->
                SumSeq([t \in 1..T |->
                    LET k == n - (t - 1) * stride
                    IN  IF k >= 1 /\ k <= NCols(W)
                        THEN SumSeq([c \in 1..NRows(W) |-> inputs[b][c][t] * W[c][k]])
                        ELSE 0])]]

\* mutant of WindowSquaredFrames: the window is not squared
WindowFramesNotSquared(window, T) ==
    << [m \in 1..Len(window) |-> [t \in 1..T |-> window[m] * WinDen]] >>

\* line 122: self.window.repeat(1, 1, T) ** 2 : [1][m][t]
WindowSquaredFrames(window, T) ==
    << [m \in 1..Len(window) |-> [t \in 1..T |-> window[m] * window[m]]] >>

\* line 124: outputs / (coff + 1e-8), sample by sample.  A sample is kept as
\* the quotient (ola / olaDen) / (coff / coffDen + eps / EpsDen).
Normalize(outputs, coff) ==
    [b \in 1..Len(outputs) |->
        [n \in 1..Len(outputs[b]) |->
            [ola |-> outputs[b][n], coff |-> coff[1][n], eps |-> 1]]]

\* mutant of Trim: the slice taken without the pad != 0 test, so that
\* pad = 0 slices [0 : -0] = [0 : 0]
TrimNoGuard(outputs, pad) ==
    [b \in 1..Len(outputs) |->
        Slice(outputs[b], pad, IF pad = 0 THEN 0 ELSE Len(outputs[b]) - pad)]

\* line 126: outputs[..., pad : -pad] if pad != 0 else outputs
Trim(outputs, pad) ==
    IF pad # 0
    THEN [b \in 1..Len(outputs) |-> Slice(outputs[b], pad, Len(outputs[b]) - pad)]
    ELSE outputs

\* STFT.inverse(spec): spec is [num |-> [b][ch][t][f], den |-> its denominator]
inverse(self, spec) ==
    LET inputs == PackChannels(spec.num)
        C      == IF Len(inputs) = 0 THEN 0 ELSE Len(inputs[1])
        T      == IF C = 0 THEN 0 ELSE Len(inputs[1][1])
    IN  IF self.nhop <= 0 \/ C # NRows(self.inv_weight.num)
        THEN [err |-> "RuntimeError", val |-> <<>>, olaDen |-> 1, coffDen |-> 1]
        ELSE LET outputs == ConvTranspose1d(inputs, self.inv_weight.num, self.nhop)
                 t       == WindowSquaredFrames(self.window, T)
                 coff    == ConvTranspose1d(t, self.enframe, self.nhop)
             IN  [err |-> "",
                  val |-> Trim(Normalize(outputs, coff), self.pad),
                  olaDen |-> spec.den * self.inv_weight.den,
                  coffDen |-> WinDen * WinDen]

\* STFT.forward(x) = inverse(transform(x))
forward(self, x) ==
    LET spec == transform(self, x)
    IN  IF spec.err # ""
        THEN [err |-> spec.err, val |-> <<>>, olaDen |-> 1, coffDen |-> 1]
        ELSE inverse(self, spec.val)

\* STFT.nLen(nlen) for an int
nLenInt(self, l) == (l \div self.nhop) * self.nhop

\* STFT.nLen(nlen): nlen is [kind |-> "int", val |-> <<l>>] for the int l or
\* [kind |-> "list", val |-> <<l1, ...>>]; a list gives a tensor
nLen(self, nlen) ==
    LET len_list == nlen.val
    IN  IF self.nhop = 0 /\ Len(len_list) > 0
        THEN [err |-> "ZeroDivisionError", val |-> <<>>]
        ELSE LET L == [k \in 1..Len(len_list) |-> nLenInt(self, len_list[k])]
             IN  [err |-> "", val |-> IF nlen.kind = "int" THEN L[1] ELSE L]

\* the arguments of nLen tried for a signal of l samples
NLenArgs(l) ==
    {[kind |-> "int", val |-> <<l>>],
     [kind |-> "list", val |-> <<l, l + 1>>]}

---------------------------------------------------------------------------
(* The STFT instance as a state machine: one construction, then any        *)
(* sequence of transform, inverse, forward and nLen calls.                 *)

\* all sequences over S of length n
RECURSIVE SeqsOfLen(_, _)
SeqsOfLen(S, n) ==
    IF n = 0 THEN {<<>>}
    ELSE {<<v>> \o t : v \in S, t \in SeqsOfLen(S, n - 1)}

Signals == UNION {SeqsOfLen(Samples, n) : n \in 0..MaxLen}

\* a second batch item that differs from the first in every sample
Other(x) == [i \in 1..Len(x) |-> IF x[i] = 2 THEN -1 ELSE 2]

\* input tensors: (1, T) for every signal, (1, 1, T) and (2, T) for the
\* longest ones
Inputs ==
    {[rank |-> 2, data |-> <<x>>] : x \in Signals} \cup
    {[rank |-> 3, data |-> <<x>>] : x \in SeqsOfLen(Samples, MaxLen)} \cup
    {[rank |-> 2, data |-> <<x, Other(x)>>] : x \in SeqsOfLen(Samples, MaxLen)}

\* constructor arguments
CtorArgs ==
    UNION {
        {[nframe |-> nf, nhop |-> h, nfft_given |-> g, nfft |-> IF g THEN N ELSE 0,
          win |-> w, center |-> c] :
            h \in 0..MaxHop, g \in BOOLEAN, N \in {1, 2},
            w \in WinArgs(nf), c \in BOOLEAN}
        : nf \in FrameLens}

NoRet == [op |-> "none", arg |-> <<>>, err |-> "", val |-> <<>>]

NoCtor ==
    [win |-> [kind |-> "none", name |-> "", data |-> <<>>], center |-> FALSE,
     nframe |-> 0, nhop |-> 0, nfft_given |-> FALSE, nfft |-> 0,
     self |-> NoSTFT("none")]

\* an all-ones spectrum of one item, T frames and F bins
OnesSpec(T, F) ==
    [num |-> << << [t \in 1..T |-> [f \in 1..F |-> 1]],
                   [t \in 1..T |-> [f \in 1..F |-> 1]] >> >>,
     den |-> 1]

\* spectra handed to inverse: what transform returns for the caller's
\* tensor, an all-ones spectrum of two frames with the instance's number of
\* bins, and one of a single frame with a foreign number of bins
SpecInputs(self, inp) ==
    LET r == transform(self, inp)
    IN  (IF r.err = "" THEN {r.val} ELSE {}) \cup
        {OnesSpec(2, (self.nfft \div 2) + 1), OnesSpec(1, (self.nfft \div 2) + 2)}

\* mutant of SelfAfterInverse: the window buffer squared in place
\* (self.window.pow_(2) for self.window ** 2)
SelfAfterInverseInPlace(self) ==
    [self EXCEPT !.window = [m \in 1..Len(@) |-> (@[m] * @[m]) \div WinDen]]

\* inverse reads self.inv_weight, self.window and self.enframe (lines 119-123)
\* and assigns none of them: the instance after the call
SelfAfterInverse(self) == self

StftInit ==
    /\ sig \in Inputs
    /\ stft = NoSTFT("none")
    /\ ctor = NoCtor
    /\ ret = NoRet
    /\ wavs = <<>>
    /\ hopsObj = <<>>
    /\ apcArgs = <<>>
    /\ apc = <<>>
    /\ apcRet = <<>>
    /\ apcLog = {}
    /\ fnArgs = <<>>
    /\ fnRet = <<>>

Construct ==
    /\ stft.status = "none"
    /\ \E a \in CtorArgs :
        /\ stft' = STFT_init(a)
        /\ ctor' = [win |-> a.win, center |-> a.center,
                    nframe |-> a.nframe, nhop |-> a.nhop,
                    nfft_given |-> a.nfft_given, nfft |-> a.nfft, self |-> stft']
        /\ ret' = [op |-> "init", arg |-> <<>>, val |-> <<>>,
                   err |-> IF stft'.status = "ok" THEN "" ELSE stft'.status]
    /\ UNCHANGED <<sig, apcVars, fnVars>>

Transform ==
    /\ stft.status = "ok"
    /\ LET r == transform(stft, sig)
       IN  ret' = [op |-> "transform", arg |-> sig, err |-> r.err, val |-> r.val]
    /\ UNCHANGED <<sig, stft, ctor, apcVars, fnVars>>

Inverse ==
    /\ stft.status = "ok"
    /\ \E spec \in SpecInputs(stft, sig) :
        LET r == inverse(stft, spec)
        IN  /\ ret' = [op |-> "inverse", arg |-> spec, err |-> r.err, val |-> r]
            /\ stft' = IF r.err = "" THEN SelfAfterInverse(stft) ELSE stft
    /\ UNCHANGED <<sig, ctor, apcVars, fnVars>>

Forward ==
    /\ stft.status = "ok"
    /\ LET r == forward(stft, sig)
       IN  /\ ret' = [op |-> "forward", arg |-> sig, err |-> r.err, val |-> r]
           /\ stft' = IF r.err = "" THEN SelfAfterInverse(stft) ELSE stft
    /\ UNCHANGED <<sig, ctor, apcVars, fnVars>>

NLen ==
    /\ stft.status = "ok"
    /\ \E nlen \in NLenArgs(Len(sig.data[1])) :
        LET r == nLen(stft, nlen)
        IN  ret' = [op |-> "nLen", arg |-> nlen, err |-> r.err, val |-> r.val]
    /\ UNCHANGED <<sig, stft, ctor, apcVars, fnVars>>

StftNext ==
    \/ Construct
    \/ Transform
    \/ Inverse
    \/ Forward
    \/ NLen

\* the STFT engine alone
SpecSTFT == StftInit /\ [][StftNext]_vars

---------------------------------------------------------------------------
(* What the claims about the STFT engine expect, written from the claims'  *)
(* own words and not through the operators above.                          *)

\* number of frequency bins: transform_size // 2 + 1
NumFreqBins == (stft.nfft \div 2) + 1

\* the padding the configuration asks for: frame_length // 2 when centred
ExpPad == IF ctor.center THEN stft.nframe \div 2 ELSE 0

\* sample n (from 0) of item b of the caller's tensor after padding
PaddedAt(b, n) ==
    IF n < ExpPad \/ n >= ExpPad + Len(sig.data[b]) THEN 0
    ELSE sig.data[b][n - ExpPad + 1]

ExpPaddedLen == Len(sig.data[1]) + 2 * ExpPad

ExpFrames == 1 + ((ExpPaddedLen - stft.nframe) \div stft.nhop)

\* response of kernel row c to the nframe samples that start at padded
\* sample s0 (from 0) of item b
RowResponse(b, c, s0) ==
    SumSeq([m \in 1..stft.nframe |-> stft.weight.num[c][m] * PaddedAt(b, s0 + m - 1)])

\* the frames t (from 0) of a T-frame overlap-add that cover output sample n
Covering(n, T) ==
    {t \in 0..(T - 1) : t * stft.nhop <= n /\ n < t * stft.nhop + stft.nframe}

RECURSIVE SumOver(_, _)
SumOver(S, f) ==
    IF S = {} THEN 0
    ELSE LET e == CHOOSE e \in S : TRUE IN f[e] + SumOver(S \ {e}, f)

\* sum of window[n - t hop]^2 over the frames covering n
ExpCoff(n, T) ==
    SumOver(Covering(n, T),
            [t \in 0..(T - 1) |->
                LET k == n - t * stft.nhop + 1
                IN  IF k >= 1 /\ k <= stft.nframe
                    THEN stft.window[k] * stft.window[k] ELSE 0])

\* channel c (from 1) of frame t (from 1) of item b of a spectrum, in the
\* order the inverse kernel's rows expect: real bins, then imaginary bins
Packed(spec, b, c, t) ==
    IF c <= NumFreqBins THEN spec[b][1][t][c] ELSE spec[b][2][t][c - NumFreqBins]

\* overlap-added synthesis value at output sample n
ExpOla(spec, b, n, T) ==
    SumOver(Covering(n, T),
            [t \in 0..(T - 1) |->
                LET k == n - t * stft.nhop + 1
                IN  IF k >= 1 /\ k <= stft.nframe
                    THEN SumSeq([c \in 1..(2 * NumFreqBins) |->
                            Packed(spec, b, c, t + 1) * stft.inv_weight.num[c][k]])
                    ELSE 0])

\* number of frames of the spectrum a call was given
FramesOf(spec) == Len(spec.num[1][1])

\* |(ola / Da) / (coff / Dc + eps / EpsDen) - xv| <= 1 / TolDen, in integers:
\* with d = ola Dc - xv coff Da, s = xv eps Da Dc, g = coff Da, h = eps Da Dc
\* the difference is (EpsDen d - s) / (EpsDen g + h), and since
\* EpsDen = TolDen^2 the bound is |EpsDen d - s| <= TolDen g + h \div TolDen.
\* The first bound on d keeps EpsDen * d within 32-bit integers.
SampleWithinTol(smp, Da, Dc, xv) ==
    LET d   == smp.ola * Dc - xv * smp.coff * Da
        s   == xv * smp.eps * Da * Dc
        g   == smp.coff * Da
        h   == smp.eps * Da * Dc
        lim == TolDen * g + (h \div TolDen)
    IN  /\ g + h > 0
        /\ Abs(d) <= (lim + Abs(s)) \div EpsDen
        /\ Abs(EpsDen * d - s) <= lim

\* the window argument is a square-root window of a family scipy knows: the
\* name the source handles, or an array of the non-negative square roots of
\* the family's samples
SqrtFamily(win) ==
    \/ win.kind = "str" /\ win.name = "hann sqrt"
    \/ /\ win.kind = "ndarray"
       /\ \E base \in KnownWindows :
            LET w == get_window(base, Len(win.data))
            IN  \A k \in 1..Len(win.data) :
                    /\ win.data[k] >= 0
                    /\ win.data[k] * win.data[k] = w[k] * WinDen

---------------------------------------------------------------------------
(* Claims about the STFT engine (checked under SpecSTFT).                  *)

\* C1 (as stated): round trip.  For every instance built with a matched
\* sqrt-family window and every input of at least frame_length samples,
\* forward returns a signal whose every sample is within 1e-4 of the
\* corresponding input sample.
C1_RoundTrip ==
    (/\ ret.op = "forward"
     /\ SqrtFamily(ctor.win)
     /\ stft.nhop >= 1
     /\ Len(sig.data[1]) >= stft.nframe)
        => /\ ret.err = ""
           /\ \A b \in 1..Len(ret.val.val) :
                 \A k \in 1..Len(ret.val.val[b]) :
                     SampleWithinTol(ret.val.val[b][k], ret.val.olaDen,
                                     ret.val.coffDen, sig.data[b][k])

\* C2: frame count.  transform returns exactly
\* 1 + floor((padded_length - frame_length) / hop_length) frames (and returns
\* whenever that number is at least 1), and frame t is what the engine
\* computes for the frame_length padded samples starting at t * hop_length.
C2_FrameCount ==
    (ret.op = "transform" /\ stft.nhop >= 1) =>
        /\ (ExpFrames >= 1) => ret.err = ""
        /\ ret.err = "" =>
            \A b \in 1..Len(ret.val.num) :
                /\ Len(ret.val.num[b][1]) = ExpFrames
                /\ Len(ret.val.num[b][2]) = ExpFrames
                /\ \A t \in 1..ExpFrames :
                    LET start == (t - 1) * stft.nhop
                        frame == [m \in 1..stft.nframe |-> PaddedAt(b, start + m - 1)]
                        alone == transform([stft EXCEPT !.pad = 0],
                                           [rank |-> 2, data |-> <<frame>>])
                    IN  /\ alone.err = ""
                        /\ ret.val.num[b][1][t] = alone.val.num[1][1][1]
                        /\ ret.val.num[b][2][t] = alone.val.num[1][2][1]

C2_Witness ==
    /\ ret.op = "transform"
    /\ ret.err = ""
    /\ ctor.center
    /\ stft.nframe = 4
    /\ stft.nhop = 2
    /\ Len(sig.data[1]) = 3
    /\ Len(ret.val.num[1][1]) = 2

\* C3: output layout.  For an input of shape (B, T) or (B, 1, T) transform
\* returns (B, 2, num_frames, nfft // 2 + 1); entry [b, 0, t, f] is the
\* response of kernel row f at frame t, entry [b, 1, t, f] that of kernel
\* row num_freq_bins + f.
C3_OutputLayout ==
    (ret.op = "transform" /\ ret.err = "") =>
        /\ Len(ret.val.num) = Len(sig.data)
        /\ \A b \in 1..Len(ret.val.num) :
            /\ Len(ret.val.num[b]) = 2
            /\ \A ch \in 1..2 :
                /\ Len(ret.val.num[b][ch]) = Len(ret.val.num[1][1])
                /\ \A t \in 1..Len(ret.val.num[b][ch]) :
                    /\ Len(ret.val.num[b][ch][t]) = NumFreqBins
                    /\ \A f \in 1..NumFreqBins :
                        ret.val.num[b][ch][t][f] =
                            RowResponse(b, (ch - 1) * NumFreqBins + f, (t - 1) * stft.nhop)

C3_Witness ==
    /\ ret.op = "transform"
    /\ ret.err = ""
    /\ sig.rank = 3
    /\ NumFreqBins = 3
    /\ Len(ret.val.num[1][1]) >= 2
    /\ \E t \in 1..Len(ret.val.num[1][2]) : ret.val.num[1][2][t][2] # 0

\* C4: padding trim.  inverse on a spectrum of num_frames frames returns
\* exactly (num_frames - 1) hop + frame_length - 2 pad samples: the untrimmed
\* overlap-add output without its first pad and its last pad samples, and all
\* of it when pad = 0.
C4_PaddingTrim ==
    (ret.op = "inverse" /\ ret.err = "") =>
        LET T    == FramesOf(ret.arg)
            full == (T - 1) * stft.nhop + stft.nframe
        IN  \A b \in 1..Len(ret.val.val) :
                /\ Len(ret.val.val[b]) = full - 2 * ExpPad
                /\ \A k \in 1..Len(ret.val.val[b]) :
                    /\ ret.val.val[b][k].coff = ExpCoff(ExpPad + k - 1, T)
                    /\ ret.val.val[b][k].ola = ExpOla(ret.arg.num, b, ExpPad + k - 1, T)

C4_Witness ==
    /\ ret.op = "inverse"
    /\ ret.err = ""
    /\ ctor.center
    /\ stft.pad = 2
    /\ FramesOf(ret.arg) = 4
    /\ Len(ret.val.val[1]) = 3

\* C5: overlap-add normalisation.  For every output sample n before trimming
\* the value is the overlap-added synthesis value divided by coff[n] + 1e-8,
\* coff[n] being the sum of window[n - t hop]^2 over exactly the frames t with
\* t hop <= n < t hop + frame_length.
C5_Normalization ==
    (ret.op = "inverse" /\ ret.err = "") =>
        LET T         == FramesOf(ret.arg)
            untrimmed == inverse([stft EXCEPT !.pad = 0], ret.arg)
        IN  /\ untrimmed.err = ""
            /\ untrimmed.coffDen = WinDen * WinDen
            /\ \A b \in 1..Len(untrimmed.val) :
                /\ Len(untrimmed.val[b]) = (T - 1) * stft.nhop + stft.nframe
                /\ \A n \in 0..(Len(untrimmed.val[b]) - 1) :
                    untrimmed.val[b][n + 1] =
                        [ola  |-> ExpOla(ret.arg.num, b, n, T),
                         coff |-> ExpCoff(n, T),
                         eps  |-> 1]

C5_Witness ==
    /\ ret.op = "inverse"
    /\ ret.err = ""
    /\ stft.nframe = 4
    /\ stft.nhop = 1
    /\ FramesOf(ret.arg) >= 3
    /\ \E k \in 1..Len(ret.val.val[1]) :
        /\ Cardinality(Covering(stft.pad + k - 1, FramesOf(ret.arg))) = 3
        /\ ret.val.val[1][k].ola # 0

\* C6: kernel immutability.  After construction and any calls, weight,
\* inv_weight, window, enframe and (nframe, nhop, nfft, pad) are what
\* __init__ left.
C6_KernelImmutable ==
    stft.status = "ok" =>
        /\ stft.weight = ctor.self.weight
        /\ stft.inv_weight = ctor.self.inv_weight
        /\ stft.window = ctor.self.window
        /\ stft.enframe = ctor.self.enframe
        /\ <<stft.nframe, stft.nhop, stft.nfft, stft.pad>> =
           <<ctor.self.nframe, ctor.self.nhop, ctor.self.nfft, ctor.self.pad>>

C6_Witness ==
    /\ ret.op = "forward"
    /\ ret.err = ""
    /\ stft.nframe >= 2
    /\ \E k \in 1..Len(stft.window) : stft.window[k] \notin {0, WinDen}
    /\ Len(ret.val.val[1]) >= 2


\* ---------------------------------------------------------------------
\* The loss compositor: models/APC_SNR/apc_snr.py, APC_SNR_multi_filter
\* ---------------------------------------------------------------------
\* conv_stft.ConvSTFT, acoustic_scaler.AcousticScaler and
\* pmsqe.SingleSrcPMSQE of the package models.APC_SNR are imported by
\* apc_snr.py (lines 5-7) and are not part of the sources at hand.  An
\* engine is the record of its constructor's arguments, a spectrum the
\* record of the engine and the signal it analysed, and a loss value the
\* record of the function that produced it and of its arguments: a value
\* is determined by its record, and two records are equal exactly when the
\* same computation was applied to the same arguments.

\* longest `hops` sequence a caller passes
MaxHops == 2

\* most compositors constructed one after another from one hops object
MaxBuilds == 2

\* the hop sizes a caller chooses from, and the model's hop
HopChoices == {1, 2, 4}

ModelHops == {1, 2}

\* model_winlen, theta (in 1/100) and mag_bins of the constructions explored
ApcSizes == [model_winlen |-> 4, theta |-> 1, mag_bins |-> 2]

RECURSIVE SeqsUpTo(_, _)
SeqsUpTo(S, n) ==
    IF n = 0 THEN {<<>>}
    ELSE SeqsUpTo(S, n - 1) \cup SeqsOfLen(S, n)

\* the caller's hops object: a python list or a python tuple
HopsObjects ==
    {[kind |-> k, items |-> h] : k \in {"list", "tuple"}, h \in SeqsUpTo(HopChoices, MaxHops)}

\* the caller's (est_time_domain, clean) tensors, one item of one sample each
WavPairs ==
    {[est |-> << <<e>> >>, clean |-> << <<c>> >>] : e \in Samples, c \in Samples}

\* conv_stft.ConvSTFT(win_len, win_inc, fft_len, win_type, feature_type)
ConvSTFT(win_len, win_inc, fft_len, win_type, feature_type) ==
    [win_len |-> win_len, win_inc |-> win_inc, fft_len |-> fft_len,
     win_type |-> win_type, feature_type |-> feature_type]

\* engine(x): the spectrum of x at the engine's resolution
EngineCall(engine, x) == [stft |-> engine, of |-> x]

\* lines 10-15: power(x), the per-bin sum of the squared real and imaginary
\* parts of a spectrum
power(x) == [fn |-> "power", of |-> x]

\* lines 71 and 81: self.scaler(a, b), the pair (est_scales, clean_scales)
ScalerCall(self, a, b) == [fn |-> "scaler", scaler |-> self.scaler, args |-> <<a, b>>]

\* lines 71-74 and 81-84: stft_snr(est * est_scales, clean * clean_scales)
\* with est_scales, clean_scales = self.scaler(est, clean)
ScaledSnr(self, est_stft, clean_stft) ==
    [fn |-> "stft_snr", scaler |-> self.scaler, est |-> est_stft, clean |-> clean_stft,
     scales |-> ScalerCall(self, est_stft, clean_stft)]

\* lines 90-94: self.pmsqe(power(est_stft), power(clean_stft)).mean()
pmsqe_score(self, est_stft, clean_stft) ==
    [fn |-> "pmsqe_mean", pmsqe |-> self.pmsqe, est |-> est_stft, clean |-> clean_stft,
     args |-> <<power(est_stft), power(clean_stft)>>]

\* `x in seq`
Contains(seq, x) == \E i \in 1..Len(seq) : seq[i] = x

\* list.remove(x): the first occurrence of x leaves the list
ListRemove(seq, x) ==
    LET i == CHOOSE j \in 1..Len(seq) :
                 seq[j] = x /\ \A k \in 1..(j - 1) : seq[k] # x
    IN  DropAt(seq, i)

NoAPC(status) == [status |-> status, self |-> <<>>]

\* lines 34-56.  self.multi_hop is the caller's object itself (line 36), so
\* line 49 acts on the caller's object: `hops` of the result is that object
\* after the construction.  A tuple has no remove method.
APC_init(model_hop, model_winlen, theta, mag_bins, hops) ==
    IF Contains(hops.items, model_hop) /\ hops.kind = "tuple"
    THEN [status |-> "AttributeError", self |-> <<>>, hops |-> hops]
    ELSE LET multi_hop ==
                 IF Contains(hops.items, model_hop)
                 THEN [hops EXCEPT !.items = ListRemove(@, model_hop)]
                 ELSE hops
             Aux(hop) == ConvSTFT(model_winlen, hop, mag_bins * 2, "hanning sqrt", "complex")
         IN  [status |-> "ok",
              self   |-> [scaler      |-> [theta |-> theta, mag_bins |-> mag_bins + 1],
                          pmsqe       |-> [sample_rate |-> 16000],
                          model_stft  |-> ConvSTFT(model_winlen, model_hop, mag_bins * 2,
                                                   "hanning sqrt", "complex"),
                          stfts       |-> [i \in 1..Len(multi_hop.items) |->
                                              Aux(multi_hop.items[i])]],
              hops   |-> multi_hop]

\* lines 69 and 74: the accumulators start from the model resolution
ModelTerms(self, est_time_domain, clean) ==
    LET est        == EngineCall(self.model_stft, est_time_domain)
        clean_stft == EngineCall(self.model_stft, clean)
    IN  [pmsqe_score     |-> <<pmsqe_score(self, est, clean_stft)>>,
         stft_scaled_snr |-> <<ScaledSnr(self, est, clean_stft)>>]

\* mutant of LoopBody: the accumulators are assigned, not added to
LoopBodyAssign(self, filter, est_time_domain, clean, acc) ==
    LET clean_stft == EngineCall(filter, clean)
        est_stft   == EngineCall(filter, est_time_domain)
    IN  [pmsqe_score     |-> <<pmsqe_score(self, est_stft, clean_stft)>>,
         stft_scaled_snr |-> <<ScaledSnr(self, est_stft, clean_stft)>>]

\* lines 77-84: one pass of the loop; a sum is the sequence of its terms
LoopBody(self, filter, est_time_domain, clean, acc) ==
    LET clean_stft == EngineCall(filter, clean)
        est_stft   == EngineCall(filter, est_time_domain)
    IN  [pmsqe_score     |-> Append(acc.pmsqe_score, pmsqe_score(self, est_stft, clean_stft)),
         stft_scaled_snr |-> Append(acc.stft_scaled_snr,
                                    ScaledSnr(self, est_stft, clean_stft))]

\* line 76: for filter in self.stfts, from the i-th engine on
RECURSIVE ForFilters(_, _, _, _, _)
ForFilters(self, i, est_time_domain, clean, acc) ==
    IF i > Len(self.stfts) THEN acc
    ELSE ForFilters(self, i + 1, est_time_domain, clean,
                    LoopBody(self, self.stfts[i], est_time_domain, clean, acc))

\* lines 66-88: the pair (snr, pmsqe), each a sum of terms over a divisor
APC_forward(self, est_time_domain, clean) ==
    LET acc == ForFilters(self, 1, est_time_domain, clean,
                          ModelTerms(self, est_time_domain, clean))
    IN  << [sum |-> acc.stft_scaled_snr, div |-> Len(self.stfts) + 1],
           [sum |-> acc.pmsqe_score,     div |-> Len(self.stfts) + 1] >>

\* mutant of SelfAfterForward: an engine at the model's resolution joins
\* self.stfts on every call
SelfAfterForwardAppend(self) ==
    [self EXCEPT !.stfts = Append(@, self.model_stft)]

\* forward assigns no attribute of self (lines 66-88): the instance after it
SelfAfterForward(self) == self

\* forward rebinds the local names est and clean_stft (lines 66-67, 72-73,
\* 77-78) and writes to neither argument: the caller's tensors after it
WavsAfterForward(w) == w

NoApcRet ==
    [op |-> "none", arg |-> <<>>, after |-> <<>>, before |-> <<>>,
     prev |-> <<>>, repeat |-> FALSE, val |-> <<>>]

ApcInit ==
    /\ sig = <<>>
    /\ stft = NoSTFT("none")
    /\ ctor = NoCtor
    /\ ret = NoRet
    /\ wavs \in WavPairs
    /\ hopsObj \in HopsObjects
    /\ apcArgs = <<>>
    /\ apc = NoAPC("none")
    /\ apcRet = NoApcRet
    /\ apcLog = {}
    /\ fnArgs = <<>>
    /\ fnRet = <<>>

ApcConstruct ==
    /\ apc.status = "none"
    /\ \E model_hop \in ModelHops :
        LET r == APC_init(model_hop, ApcSizes.model_winlen, ApcSizes.theta,
                          ApcSizes.mag_bins, hopsObj)
        IN  /\ apcArgs' = [model_hop |-> model_hop, hops |-> hopsObj, built |-> r.self,
                            earlier |-> <<>>]
            /\ apc' = [status |-> r.status, self |-> r.self]
            /\ hopsObj' = r.hops
            /\ apcRet' = [NoApcRet EXCEPT !.op = "init"]
    /\ UNCHANGED <<wavs, apcLog, stftVars, fnVars>>

\* the caller constructs the next compositor from the same hops object and
\* the same model_hop and uses it in place of the one before; `earlier`
\* keeps the instances constructed before
ApcConstructAgain ==
    /\ apc.status = "ok"
    /\ Len(apcArgs.earlier) + 1 < MaxBuilds
    /\ LET r == APC_init(apcArgs.model_hop, ApcSizes.model_winlen, ApcSizes.theta,
                         ApcSizes.mag_bins, hopsObj)
       IN  /\ apcArgs' = [model_hop |-> apcArgs.model_hop, hops |-> hopsObj,
                           built |-> r.self,
                           earlier |-> Append(apcArgs.earlier, apc.self)]
           /\ apc' = [status |-> r.status, self |-> r.self]
           /\ hopsObj' = r.hops
           /\ apcRet' = [NoApcRet EXCEPT !.op = "init"]
           /\ apcLog' = {}
    /\ UNCHANGED <<wavs, stftVars, fnVars>>

ApcForward ==
    /\ apc.status = "ok"
    /\ LET v == APC_forward(apc.self, wavs.est, wavs.clean)
       IN  /\ apcRet' = [op |-> "forward", arg |-> wavs, after |-> WavsAfterForward(wavs),
                         before |-> apc, val |-> v,
                         prev |-> IF apcRet.op = "forward" THEN apcRet.arg ELSE <<>>,
                         repeat |-> \E e \in apcLog : e.arg = wavs]
           /\ apcLog' = apcLog \cup {[arg |-> wavs, val |-> v]}
    /\ apc' = [apc EXCEPT !.self = SelfAfterForward(@)]
    /\ wavs' = WavsAfterForward(wavs)
    /\ UNCHANGED <<hopsObj, apcArgs, stftVars, fnVars>>

\* the caller binds the next pair of signals
ApcNewInputs ==
    /\ apcRet.op = "forward"
    /\ wavs' \in WavPairs \ {wavs}
    /\ UNCHANGED <<hopsObj, apcArgs, apc, apcRet, apcLog, stftVars, fnVars>>

ApcNext ==
    \/ ApcConstruct
    \/ ApcConstructAgain
    \/ ApcForward
    \/ ApcNewInputs

\* the compositor alone
SpecAPC == ApcInit /\ [][ApcNext]_vars


\* ---------------------------------------------------------------------
\* Claims about the compositor
\* ---------------------------------------------------------------------

\* the hop sizes of the auxiliary engines, in the order of self.stfts
AuxHops(self) == [i \in 1..Len(self.stfts) |-> self.stfts[i].win_inc]

\* how often the term t occurs in the sum (a sequence of terms)
Count(sum, t) == Cardinality({i \in 1..Len(sum) : sum[i] = t})

\* the model engine followed by the auxiliary engines
Engines(self) == <<self.model_stft>> \o self.stfts

\* the scaled-SNR loss and the perceptual score of one engine on a pair
SnrAt(self, engine, w) ==
    ScaledSnr(self, EngineCall(engine, w.est), EngineCall(engine, w.clean))

PmsqeAt(self, engine, w) ==
    pmsqe_score(self, EngineCall(engine, w.est), EngineCall(engine, w.clean))

\* C7 (compositor statelessness): all forward calls of a compositor that
\* were given equal (est_time_domain, clean) returned equal pairs of
\* losses, whatever was called in between; after a call the caller's
\* tensors are what was passed, and the instance, its engines included, is
\* what it was before the call and what the construction built.
C7_Stateless ==
    /\ \A p \in apcLog : \A q \in apcLog : p.arg = q.arg => p.val = q.val
    /\ apcRet.op = "forward" =>
        /\ apcRet.after = apcRet.arg
        /\ apc = apcRet.before
        /\ apc.self = apcArgs.built

\* a call repeats the inputs of an earlier call, the call just before it
\* had other inputs, and the compositor has an auxiliary engine
C7_Witness ==
    /\ apcRet.op = "forward"
    /\ apcRet.repeat
    /\ apcRet.prev # <<>>
    /\ apcRet.prev # apcRet.arg
    /\ Len(apc.self.stfts) >= 1

\* C8 (multi-resolution mean): forward returns (S / N, P / N) with
\* N = 1 + the number of auxiliary engines; S has N terms, the scaled-SNR
\* loss of every engine (the model's and each auxiliary one) on the call's
\* signals, each as often as that engine is held, with weight 1; P has the
\* perceptual scores in the same way.
C8_MultiResolutionMean ==
    apcRet.op = "forward" =>
        LET self == apcRet.before.self
            N    == 1 + Len(self.stfts)
            S    == apcRet.val[1]
            P    == apcRet.val[2]
            E    == Engines(self)
        IN  /\ S.div = N /\ P.div = N
            /\ Len(S.sum) = N /\ Len(P.sum) = N
            /\ \A i \in 1..N :
                /\ Count(S.sum, SnrAt(self, E[i], apcRet.arg))
                     = Cardinality({k \in 1..N : E[k] = E[i]})
                /\ Count(P.sum, PmsqeAt(self, E[i], apcRet.arg))
                     = Cardinality({k \in 1..N : E[k] = E[i]})

\* forward has returned from a compositor with two auxiliary engines of
\* different hop sizes, both different from the model's
C8_Witness ==
    /\ apcRet.op = "forward"
    /\ Len(apc.self.stfts) = 2
    /\ Cardinality({apcArgs.model_hop, AuxHops(apc.self)[1], AuxHops(apc.self)[2]}) = 3

\* the hops passed at construction held nothing but the model hop
OnlyModelHop ==
    \A i \in 1..Len(apcArgs.hops.items) : apcArgs.hops.items[i] = apcArgs.model_hop

\* C9 (single resolution): when the hops passed are empty or hold only the
\* model hop, the compositor is built and every forward call returns the
\* model engine's scaled-SNR loss and perceptual score themselves: one term
\* each, over a divisor of 1.
C9_SingleResolution ==
    (apc.status # "none" /\ OnlyModelHop) =>
        /\ apc.status = "ok"
        /\ apcRet.op = "forward" =>
            apcRet.val =
                << [sum |-> <<SnrAt(apcArgs.built, apcArgs.built.model_stft, apcRet.arg)>>,
                    div |-> 1],
                   [sum |-> <<PmsqeAt(apcArgs.built, apcArgs.built.model_stft, apcRet.arg)>>,
                    div |-> 1] >>

\* C10 (duplicate hop sizes): whatever list or tuple of hops is passed, the
\* construction succeeds, the auxiliary engines have pairwise different hop
\* sizes, none of them the model hop, and there is one for every hop passed
\* that differs from the model hop.
C10_OneEnginePerHop ==
    apc.status # "none" =>
        /\ apc.status = "ok"
        /\ LET aux == AuxHops(apc.self)
           IN  /\ \A i \in 1..Len(aux) : \A j \in 1..Len(aux) : aux[i] = aux[j] => i = j
               /\ {aux[i] : i \in 1..Len(aux)} =
                    {apcArgs.hops.items[i] : i \in 1..Len(apcArgs.hops.items)}
                        \ {apcArgs.model_hop}


\* ---------------------------------------------------------------------
\* stft_snr (models/APC_SNR/apc_snr.py, lines 18-28)
\* ---------------------------------------------------------------------
\* Numbers.  torch tensors hold float32 values and every operation of
\* stft_snr rounds its result to float32 (round to nearest, ties to even).
\* A float32 value is [s |-> sign, m |-> mantissa, e |-> exponent] for the
\* number s * m * 2^e with 2^23 <= m < 2^24, or FZero; one number has one
\* record, so that two values are equal exactly when their records are.
\* All values here are finite and far from the largest and the smallest
\* float32, and no divisor is 0.  log10 is not evaluated: a value
\* 10 * log10(r) is kept as its float32 argument r.  float32 log10 is
\* nondecreasing, so equal arguments give equal values and a smaller value
\* has a smaller argument.

\* a sequence given by a rule, as the tuple of its elements
Tup(s) == s \o <<>>

\* 2^24 and 2^23: a float32 mantissa has 24 bits
FTop == Pow2(24)

FHalfTop == Pow2(23)

FZero == [s |-> 0, m |-> 0, e |-> 0]

\* number of bits of n >= 0
RECURSIVE BitLen(_)
BitLen(n) == IF n = 0 THEN 0 ELSE 1 + BitLen(n \div 2)

\* the float32 nearest to s * (N + f) * 2^e, ties to even, for an integer
\* N >= 0 and a fraction 0 <= f < 1 that is known only to be zero or not
\* (sticky); N has 26 bits or more when f is not zero
F32Round(s, N, sticky, e) ==
    LET b == BitLen(N)
    IN  IF N = 0 THEN FZero
        ELSE IF b <= 24
        THEN [s |-> s, m |-> N * Pow2(24 - b), e |-> e - (24 - b)]
        ELSE LET sh   == b - 24
                 q    == N \div Pow2(sh)
                 r    == N % Pow2(sh)
                 half == Pow2(sh - 1)
                 up   == r > half \/ (r = half /\ (sticky \/ q % 2 = 1))
                 m    == IF up THEN q + 1 ELSE q
             IN  IF m = FTop
                 THEN [s |-> s, m |-> FHalfTop, e |-> e + sh + 1]
                 ELSE [s |-> s, m |-> m, e |-> e + sh]

\* the float32 of an integer
F32Of(i) == F32Round(IF i > 0 THEN 1 ELSE -1, Abs(i), FALSE, 0)

\* |x| < |y| for x, y other than 0
MagLess(x, y) == x.e < y.e \/ (x.e = y.e /\ x.m < y.m)

\* x < y and x <= y
F32Less(x, y) ==
    CASE x.s < y.s -> TRUE
      [] x.s > y.s -> FALSE
      [] x.s = 0   -> FALSE
      [] x.s = 1   -> MagLess(x, y)
      [] OTHER     -> MagLess(y, x)

F32Leq(x, y) == x = y \/ F32Less(x, y)

\* x + y: the smaller operand is aligned to three bits below the larger
\* one's last bit, what falls off below is remembered as sticky, and the
\* sum is rounded once
F32Add(x, y) ==
    IF x.s = 0 THEN y
    ELSE IF y.s = 0 THEN x
    ELSE LET big    == IF MagLess(x, y) THEN y ELSE x
             small  == IF MagLess(x, y) THEN x ELSE y
             d      == big.e - small.e
             A      == big.m * 8
             B      == IF d <= 3 THEN small.m * Pow2(3 - d)
                       ELSE IF d - 3 >= 25 THEN 0
                       ELSE small.m \div Pow2(d - 3)
             sticky == IF d <= 3 THEN FALSE
                       ELSE IF d - 3 >= 25 THEN TRUE
                       ELSE small.m % Pow2(d - 3) # 0
         IN  IF big.s = small.s
             THEN F32Round(big.s, A + B, sticky, big.e - 3)
             ELSE F32Round(big.s, A - B - (IF sticky THEN 1 ELSE 0), sticky, big.e - 3)

F32Neg(x) == [x EXCEPT !.s = -x.s]

\* x - y
F32Sub(x, y) == F32Add(x, F32Neg(y))

\* x * y: the 48-bit product of the mantissas from their 12-bit halves
F32Mul(x, y) ==
    IF x.s = 0 \/ y.s = 0 THEN FZero
    ELSE LET a1    == x.m \div 4096
             a0    == x.m % 4096
             b1    == y.m \div 4096
             b0    == y.m % 4096
             lowp  == a0 * b0
             t     == (a1 * b0 + a0 * b1) + (lowp \div 4096)
             H     == a1 * b1 + (t \div 4096)
             mid12 == t % 4096
             \* the product is H * 2^24 + mid12 * 2^12 + lowp % 4096
         IN  F32Round(x.s * y.s, H * 16 + (mid12 \div 256),
                      mid12 % 256 # 0 \/ lowp % 4096 # 0, x.e + y.e + 20)

\* k binary digits of r / d for r < 2 d, one before the point: the digits
\* as an integer and the remainder
RECURSIVE DivBits(_, _, _, _)
DivBits(r, d, k, acc) ==
    IF k = 0 THEN [q |-> acc, r |-> r]
    ELSE LET bit == IF r >= d THEN 1 ELSE 0
         IN  DivBits(2 * (r - bit * d), d, k - 1, 2 * acc + bit)

\* x / y for y other than 0
F32Div(x, y) ==
    IF y.s = 0 THEN CHOOSE v \in {} : TRUE
    ELSE IF x.s = 0 THEN FZero
    ELSE LET qr == DivBits(x.m, y.m, 28, 0)
         IN  F32Round(x.s * y.s, qr.q, qr.r # 0, x.e - y.e - 27)

\* eps = 1e-8 as the float32 it is added as
EpsF == F32Div(F32Of(1), F32Of(EpsDen))

\* the inputs explored are tensors of shape (2, 1) whose samples are whole
\* multiples of 2^-SnrFracBits; a sample is given as that multiple
SnrFracBits == 14

\* sample values: -1, 0, 1, 1/2, 1/4 and 2^-13 (about 1.2e-4), so that the
\* squared norms and the squared errors met are above, near and below eps
SnrSamples == {-16384, 0, 16384, 8192, 4096, 2}

SnrItems == {<< <<u>>, <<v>> >> : u \in SnrSamples, v \in SnrSamples}

\* the items the first item of a batch of two is drawn from: samples -1, 0, 1
SnrFirstItems ==
    {<< <<16384>>, <<0>> >>, << <<16384>>, <<16384>> >>, << <<-16384>>, <<-16384>> >>,
     << <<0>>, <<16384>> >>}

\* the items a second batch item is drawn from
SnrSecondItems ==
    {<< <<16384>>, <<0>> >>, << <<16384>>, <<16384>> >>, << <<-16384>>, <<16384>> >>,
     << <<2>>, <<0>> >>, << <<-2>>, <<0>> >>}

\* batches of one item, and of two
SnrInputs ==
    {[est |-> <<e>>, clean |-> <<c>>] : e \in SnrItems, c \in SnrItems}
    \cup
    {[est |-> <<e[1], e[2]>>, clean |-> <<c[1], c[2]>>] :
        e \in SnrFirstItems \X SnrSecondItems, c \in SnrFirstItems \X SnrSecondItems}

\* x / 2^k
F32Shift(x, k) == IF x.s = 0 THEN x ELSE [x EXCEPT !.e = @ - k]

\* a tensor of samples, given in multiples of 2^-SnrFracBits, as the float32
\* values it holds
FVec(v) == Tup([i \in 1..Len(v) |-> F32Shift(F32Of(v[i]), SnrFracBits)])

\* torch.sum(v, -1): the elements added one after another
RECURSIVE FSum(_)
FSum(v) == IF Len(v) = 0 THEN FZero
           ELSE F32Add(FSum(SubSeq(v, 1, Len(v) - 1)), v[Len(v)])

\* line 19: x.reshape(x.size(0), -1), one batch item
RECURSIVE Flatten(_)
Flatten(item) == IF Len(item) = 0 THEN <<>> ELSE Head(item) \o Flatten(Tail(item))

\* sum of the products of two integer vectors
Dot(u, v) == SumSeq([i \in 1..Len(u) |-> u[i] * v[i]])

\* torch.sum(u * v, -1, keepdim=True)
FDot(u, v) == FSum(Tup([i \in 1..Len(u) |-> F32Mul(u[i], v[i])]))

\* mutant of STarget: the projection coefficient taken in absolute value
STargetAbs(s1, s2) ==
    LET c == F32Div(FDot(s1, s2), F32Add(FDot(s2, s2), EpsF))
    IN  Tup([i \in 1..Len(s2) |-> F32Mul([c EXCEPT !.s = Abs(c.s)], s2[i])])

\* lines 21-23: s_target = s1_s2_norm / (s2_s2_norm + eps) * s2
STarget(s1, s2) ==
    LET s1_s2_norm == FDot(s1, s2)
        s2_s2_norm == FDot(s2, s2)
        c == F32Div(s1_s2_norm, F32Add(s2_s2_norm, EpsF))
    IN  Tup([i \in 1..Len(s2) |-> F32Mul(c, s2[i])])

\* mutant of ENoise: the target added instead of subtracted
ENoisePlus(s1, s_target) ==
    Tup([i \in 1..Len(s1) |-> F32Add(s1[i], s_target[i])])

\* line 24: e_nosie = s1 - s_target
ENoise(s1, s_target) ==
    Tup([i \in 1..Len(s1) |-> F32Sub(s1[i], s_target[i])])

\* lines 25-26: torch.sum(v * v, -1, keepdim=True)
SqNorm(v) == FDot(v, v)

\* mutant of SnrRatio: no eps added to the quotient
SnrRatioNoOuterEps(target_norm, noise_norm) ==
    F32Div(target_norm, F32Add(noise_norm, EpsF))

\* line 27: target_norm / (noise_norm + eps) + eps, the argument of log10
SnrRatio(target_norm, noise_norm) ==
    F32Add(F32Div(target_norm, F32Add(noise_norm, EpsF)), EpsF)

\* mutant of NegMean: the mean is returned as it is
MeanNotNegated(snr) == [scale |-> 1, over |-> Len(snr), ten_log10 |-> snr]

\* line 28: -(torch.mean(snr)), the value scale / over times the sum of
\* 10 * log10(r) over the items' arguments r
NegMean(snr) == [scale |-> -1, over |-> Len(snr), ten_log10 |-> snr]

\* lines 18-28; snr holds, per batch item, the argument of 10 * log10
stft_snr(est, clean) ==
    LET snr == Tup([b \in 1..Len(est) |->
                      LET s1       == FVec(Flatten(est[b]))
                          s2       == FVec(Flatten(clean[b]))
                          s_target == STarget(s1, s2)
                          e_nosie  == ENoise(s1, s_target)
                      IN  SnrRatio(SqNorm(s_target), SqNorm(e_nosie))])
    IN  [snr |-> snr, loss |-> NegMean(snr)]

NoFnRet == [fn |-> "none", val |-> <<>>]

SnrInit ==
    /\ sig = <<>>
    /\ stft = NoSTFT("none")
    /\ ctor = NoCtor
    /\ ret = NoRet
    /\ wavs = <<>>
    /\ hopsObj = <<>>
    /\ apcArgs = <<>>
    /\ apc = <<>>
    /\ apcRet = <<>>
    /\ apcLog = {}
    /\ fnArgs \in SnrInputs
    /\ fnRet = NoFnRet

SnrCall ==
    /\ fnRet.fn = "none"
    /\ fnRet' = [fn |-> "stft_snr", val |-> stft_snr(fnArgs.est, fnArgs.clean)]
    /\ UNCHANGED <<fnArgs, stftVars, apcVars>>

SnrNext ==
    \/ SnrCall

\* stft_snr alone
SpecSNR == SnrInit /\ [][SnrNext]_vars


\* ---------------------------------------------------------------------
\* Claims about stft_snr
\* ---------------------------------------------------------------------

\* the projection as the claims give it, every operation in float32:
\* target = (est.clean / (clean.clean + eps)) * clean, error = est - target,
\* T = |target|^2 and E = |error|^2
ExpNorms(est, clean) ==
    LET coef   == F32Div(FDot(est, clean), F32Add(FDot(clean, clean), EpsF))
        target == Tup([i \in 1..Len(clean) |-> F32Mul(coef, clean[i])])
        error  == Tup([i \in 1..Len(est) |-> F32Add(est[i], F32Neg(target[i]))])
    IN  [coef |-> coef, target |-> target, error |-> error,
         T |-> FDot(target, target), E |-> FDot(error, error)]

\* the argument of log10 for one item as the claim gives it:
\* |target|^2 / (|error|^2 + eps) + eps
ExpSnrArg(est, clean) ==
    LET p == ExpNorms(est, clean)
    IN  F32Add(F32Div(p.T, F32Add(p.E, EpsF)), EpsF)

\* loss l1 is not above loss l2, whatever nondecreasing log10 the values
\* are taken with: the float32 sum and its division by the batch size are
\* nondecreasing in every item, so the mean of the items of l1 is not below
\* (scale < 0) or not above (scale > 0) that of l2 when every item is
LossLeq(l1, l2) ==
    /\ l1.over = l2.over
    /\ l1.scale = l2.scale
    /\ Len(l1.ten_log10) = Len(l2.ten_log10)
    /\ \A b \in 1..Len(l1.ten_log10) :
         IF l1.scale < 0
         THEN F32Leq(l2.ten_log10[b], l1.ten_log10[b])
         ELSE F32Leq(l1.ten_log10[b], l2.ten_log10[b])

\* the estimate with item b replaced by e
WithItem(est, b, e) == Tup([est EXCEPT ![b] = e])

\* C11 (SI-SNR loss): stft_snr computes, per flattened batch item,
\* 10 log10(|target|^2 / (|error|^2 + eps) + eps) with
\* target = (est.clean / (clean.clean + eps)) clean and error = est - target,
\* and returns minus the mean over the batch; replacing one item's estimate
\* by one of strictly larger SNR never gives a larger loss.
C11_SiSnrLoss ==
    fnRet.fn = "stft_snr" =>
        LET B == Len(fnArgs.est)
        IN  /\ Len(fnRet.val.snr) = B
            /\ \A b \in 1..B :
                 fnRet.val.snr[b] =
                     ExpSnrArg(FVec(Flatten(fnArgs.est[b])), FVec(Flatten(fnArgs.clean[b])))
            /\ fnRet.val.loss = [scale |-> -1, over |-> B, ten_log10 |-> fnRet.val.snr]
            /\ \A b \in 1..B : \A e \in SnrItems :
                 LET alt == stft_snr(WithItem(fnArgs.est, b, e), fnArgs.clean)
                 IN  F32Less(fnRet.val.snr[b], alt.snr[b])
                        => LossLeq(alt.loss, fnRet.val.loss)

\* the samples of an item in whole units, for an item of whole samples
Whole(item) ==
    LET s == Flatten(item)
    IN  [i \in 1..Len(s) |-> s[i] \div Pow2(SnrFracBits)]

IsWhole(item) ==
    LET s == Flatten(item)
    IN  \A i \in 1..Len(s) : s[i] % Pow2(SnrFracBits) = 0

\* a batch of two items of different SNR, the first with an estimate that is
\* neither a multiple of the clean item nor orthogonal to it
C11_Witness ==
    /\ fnRet.fn = "stft_snr"
    /\ Len(fnArgs.est) = 2
    /\ F32Less(fnRet.val.snr[1], fnRet.val.snr[2])
    /\ IsWhole(fnArgs.est[1])
    /\ IsWhole(fnArgs.clean[1])
    /\ LET s1 == Whole(fnArgs.est[1])
           s2 == Whole(fnArgs.clean[1])
       IN  /\ Dot(s1, s2) # 0
           /\ Dot(s1, s1) * Dot(s2, s2) # Dot(s1, s2) * Dot(s1, s2)


\* the positive scalars an estimate is multiplied by: 1/2, 1, 2 and 3
SnrScalars ==
    {[num |-> 1, den |-> 2], [num |-> 1, den |-> 1], [num |-> 2, den |-> 1],
     [num |-> 3, den |-> 1]}

Half == [num |-> 1, den |-> 2]

Twice == [num |-> 2, den |-> 1]

MinusOne == [num |-> -1, den |-> 1]

\* a * item; every product here is a whole multiple of 2^-SnrFracBits and a
\* float32, so that a * est is formed without rounding
Scaled(a, item) ==
    Tup([i \in 1..Len(item) |->
            Tup([j \in 1..Len(item[i]) |-> (a.num * item[i][j]) \div a.den])])

\* a is 2^k for an integer k: multiplying a float32 by a is exact
PowerOfTwo(a) == a.num \in {1, 2} /\ a.den \in {1, 2}

\* a^2 as a float32
ScalarSq(a) == F32Div(F32Of(a.num * a.num), F32Of(a.den * a.den))

\* a^2 T / (a^2 E + eps) + eps in float32
ExpScaledArg(a, T, E) ==
    LET a2 == ScalarSq(a)
    IN  F32Add(F32Div(F32Mul(a2, T), F32Add(F32Mul(a2, E), EpsF)), EpsF)

\* |x - y| <= |y| / 2^k
F32Within(x, y, k) ==
    LET d == F32Sub(x, y)
    IN  F32Leq([d EXCEPT !.s = Abs(d.s)], F32Shift([y EXCEPT !.s = Abs(y.s)], k))

\* the argument of log10 stft_snr computes for one (est, clean) item
ItemSnr(e, c) == stft_snr(<<e>>, <<c>>).snr[1]

\* C12 as stated (scale invariance): for every item and every positive
\* scalar a, the snr of (a est, clean) equals the snr of (est, clean).
C12_ScaleInvariance ==
    fnRet.fn = "stft_snr" =>
        \A b \in 1..Len(fnArgs.est) : \A a \in SnrScalars :
            ItemSnr(Scaled(a, fnArgs.est[b]), fnArgs.clean[b]) = fnRet.val.snr[b]

\* C12 as it holds: the eps added to |error|^2 does not scale with est.
\* With T = |target|^2 and E = |error|^2 of the call for (est, clean) and
\* R its argument of log10, the call for (a est, clean) has the argument
\* Ra = a^2 T / (a^2 E + eps) + eps, every operation rounded to float32:
\* exactly so when a is a power of two, and within a relative 2^-16 of it
\* for a = 3 on the inputs explored.  For a power of two a: Ra >= R when a >= 1 and Ra <= R when
\* a <= 1; Ra = R when T = 0 (both are eps, the floor), and when E > 0 and
\* eps is lost in the rounding of both E + eps and a^2 E + eps; and
\* Ra = a^2 R when E = 0, R >= 4 and a >= 1/2 (est a multiple of clean: the
\* snr moves by 20 log10 a dB).
C12_ScaledEstimate ==
    fnRet.fn = "stft_snr" =>
        \A b \in 1..Len(fnArgs.est) : \A a \in SnrScalars :
            LET p  == ExpNorms(FVec(Flatten(fnArgs.est[b])), FVec(Flatten(fnArgs.clean[b])))
                a2 == ScalarSq(a)
                R  == fnRet.val.snr[b]
                Ra == ItemSnr(Scaled(a, fnArgs.est[b]), fnArgs.clean[b])
                X  == ExpScaledArg(a, p.T, p.E)
            IN  /\ PowerOfTwo(a) => Ra = X
                /\ F32Within(Ra, X, 16)
                /\ (PowerOfTwo(a) /\ a.num >= a.den) => F32Leq(R, Ra)
                /\ (PowerOfTwo(a) /\ a.num <= a.den) => F32Leq(Ra, R)
                /\ (PowerOfTwo(a) /\ p.T = FZero) => (R = EpsF /\ Ra = EpsF)
                /\ (/\ PowerOfTwo(a)
                    /\ p.E # FZero
                    /\ F32Add(p.E, EpsF) = p.E
                    /\ F32Add(F32Mul(a2, p.E), EpsF) = F32Mul(a2, p.E)) => Ra = R
                /\ (PowerOfTwo(a) /\ 2 * a.num >= a.den /\ p.E = FZero /\ F32Leq(F32Of(4), R))
                        => Ra = F32Mul(a2, R)

\* stft_snr has returned for est = (2^-13, 2^-13) and clean = (1, 0): the
\* error is not 0, eps is not lost beside its squared norm, and the snr of
\* (est / 2, clean) is below, that of (2 est, clean) above the one returned
C12_Witness ==
    /\ fnRet.fn = "stft_snr"
    /\ fnArgs.est = << << <<2>>, <<2>> >> >>
    /\ fnArgs.clean = << << <<16384>>, <<0>> >> >>
    /\ LET p == ExpNorms(FVec(Flatten(fnArgs.est[1])), FVec(Flatten(fnArgs.clean[1])))
       IN  /\ p.T # FZero
           /\ p.E # FZero
           /\ F32Add(p.E, EpsF) # p.E
    /\ F32Less(ItemSnr(Scaled(Half, fnArgs.est[1]), fnArgs.clean[1]), fnRet.val.snr[1])
    /\ F32Less(fnRet.val.snr[1], ItemSnr(Scaled(Twice, fnArgs.est[1]), fnArgs.clean[1]))
    /\ F32Less(fnRet.val.snr[1], F32Of(1))


\* 80 dB: 10 log10 of 1 / eps = 1e8, which is a float32
EightyDb == F32Of(EpsDen)

\* 0 dB
ZeroDb == F32Of(1)

\* 1/4
Quarter == F32Shift(F32Of(1), 2)

\* the zero error of an item of two samples
NoError == <<FZero, FZero>>

\* C13 as stated (identical signals): whenever stft_snr is called with an
\* estimate item equal to its clean item x and |x| > 0, the item's snr is
\* above 80 dB.
C13_IdenticalAbove80 ==
    fnRet.fn = "stft_snr" =>
        \A b \in 1..Len(fnArgs.est) :
            LET x == Flatten(fnArgs.clean[b])
            IN  (fnArgs.est[b] = fnArgs.clean[b] /\ Dot(x, x) > 0)
                    => F32Less(EightyDb, fnRet.val.snr[b])

\* C13 as it holds: for est = clean = x with n = |x|^2 > 0 (in float32)
\* the argument R of log10 is never above n / eps + eps, so the snr is not
\* above 80 dB whenever n <= 1.  When n >= 1/4 the projection coefficient is
\* exactly 1, the error exactly 0 and R is the float32 quotient n / eps:
\* 80 dB + 10 log10(n), which is 80 dB itself for n = 1.  Below 1/4 the eps
\* added to n makes the coefficient smaller than 1, and when n <= 2 eps the
\* snr is below 0 dB.
C13_IdenticalBounded ==
    fnRet.fn = "stft_snr" =>
        \A b \in 1..Len(fnArgs.est) :
            LET x == FVec(Flatten(fnArgs.clean[b]))
                n == FDot(x, x)
                p == ExpNorms(x, x)
                R == fnRet.val.snr[b]
            IN  (fnArgs.est[b] = fnArgs.clean[b] /\ n # FZero) =>
                    /\ F32Leq(R, F32Add(F32Div(n, EpsF), EpsF))
                    /\ F32Leq(n, F32Of(1)) => F32Leq(R, EightyDb)
                    /\ n = F32Of(1) => R = EightyDb
                    /\ F32Leq(Quarter, n) =>
                            /\ p.coef = F32Of(1)
                            /\ p.error = NoError
                            /\ R = F32Div(n, EpsF)
                    /\ F32Less(n, Quarter) => F32Less(p.coef, F32Of(1))
                    /\ F32Leq(n, F32Mul(F32Of(2), EpsF)) => F32Less(R, ZeroDb)

\* stft_snr(x, x) has returned for a batch of an item of squared norm 1, at
\* exactly 80 dB, and an item of squared norm 2^-26 (about 1.5 eps), below 0 dB
C13_Witness ==
    /\ fnRet.fn = "stft_snr"
    /\ fnArgs.est = fnArgs.clean
    /\ Len(fnArgs.est) = 2
    /\ FDot(FVec(Flatten(fnArgs.clean[1])), FVec(Flatten(fnArgs.clean[1]))) = F32Of(1)
    /\ FDot(FVec(Flatten(fnArgs.clean[2])), FVec(Flatten(fnArgs.clean[2])))
            = F32Shift(F32Of(1), 26)
    /\ fnRet.val.snr[1] = EightyDb
    /\ F32Less(fnRet.val.snr[2], ZeroDb)

\* C14 as stated (negated signal): whenever stft_snr is called with an
\* estimate item -x for the clean item x and |x| > 0, the item's snr is
\* negative and strictly below the snr of stft_snr(x, x).
C14_NegatedVeryNegative ==
    fnRet.fn = "stft_snr" =>
        \A b \in 1..Len(fnArgs.est) :
            LET x == Flatten(fnArgs.clean[b])
            IN  (fnArgs.est[b] = Scaled(MinusOne, fnArgs.clean[b]) /\ Dot(x, x) > 0) =>
                    /\ F32Less(fnRet.val.snr[b], ZeroDb)
                    /\ F32Less(fnRet.val.snr[b], ItemSnr(fnArgs.clean[b], fnArgs.clean[b]))

\* C14 as it holds: for every x the snr of (-x, x) equals the snr of (x, x):
\* the projection coefficient of -x is minus that of x, the target and the
\* error are the negated ones, and their squared norms are the same.  So
\* the snr of (-x, x) is never below that of (x, x); it is above 0 dB when
\* |x|^2 >= 1/4, where the target is -x and the error 0, and below 0 dB only
\* together with the snr of (x, x), as for |x|^2 <= 2 eps.
C14_NegatedEqualsIdentical ==
    fnRet.fn = "stft_snr" =>
        \A b \in 1..Len(fnArgs.est) :
            LET x   == FVec(Flatten(fnArgs.clean[b]))
                n   == FDot(x, x)
                neg == ExpNorms(FVec(Flatten(fnArgs.est[b])), x)
                pos == ExpNorms(x, x)
                R   == fnRet.val.snr[b]
            IN  fnArgs.est[b] = Scaled(MinusOne, fnArgs.clean[b]) =>
                    /\ R = ItemSnr(fnArgs.clean[b], fnArgs.clean[b])
                    /\ neg.coef = F32Neg(pos.coef)
                    /\ neg.T = pos.T
                    /\ neg.E = pos.E
                    /\ F32Leq(Quarter, n) =>
                            /\ neg.target = FVec(Flatten(fnArgs.est[b]))
                            /\ neg.error = NoError
                            /\ F32Less(ZeroDb, R)
                    /\ (n # FZero /\ F32Leq(n, F32Mul(F32Of(2), EpsF))) => F32Less(R, ZeroDb)

\* stft_snr(-x, x) has returned for a batch of x = (1, 1), above 80 dB, and
\* x = (2^-13, 0), below 0 dB
C14_Witness ==
    /\ fnRet.fn = "stft_snr"
    /\ Len(fnArgs.est) = 2
    /\ fnArgs.est[1] = Scaled(MinusOne, fnArgs.clean[1])
    /\ fnArgs.est[2] = Scaled(MinusOne, fnArgs.clean[2])
    /\ fnArgs.clean[1] = << <<16384>>, <<16384>> >>
    /\ fnArgs.clean[2] = << <<2>>, <<0>> >>
    /\ F32Less(EightyDb, fnRet.val.snr[1])
    /\ F32Less(fnRet.val.snr[2], ZeroDb)


\* ---------------------------------------------------------------------
\* The voice-activity variant: APC_SNR (apc_snr.py, lines 97-151)
\* ---------------------------------------------------------------------

\* number of frames in the spectrum an engine returns for a signal of n
\* samples: the engine (conv_stft.ConvSTFT of models.APC_SNR) is not among
\* the sources; by its contract it pads frame_length / 2 samples on each
\* side and gives one frame every hop_length samples
EngineFrames(engine, n) ==
    LET padded == n + 2 * (engine.win_len \div 2)
    IN  IF padded < engine.win_len THEN 0
        ELSE 1 + (padded - engine.win_len) \div engine.win_inc

\* lines 98-110
APC_SNR_init(model_hop, model_winlen, theta, mag_bins) ==
    [winlen     |-> model_winlen,
     hop        |-> model_hop,
     scaler     |-> [theta |-> theta, mag_bins |-> mag_bins + 1],
     pmsqe      |-> [sample_rate |-> 16000],
     model_stft |-> ConvSTFT(model_winlen, model_hop, mag_bins * 2, "hanning sqrt", "complex")]

\* line 122: frame_num (// rounds towards minus infinity, as \div does)
VadFrameNum(self, mix_vad) == 1 + (Len(mix_vad[1]) - self.winlen) \div self.hop

\* lines 123-130: vad_frames[b][i], the sum of the i-th frame of mix_vad
VadFrames(self, mix_vad, frame_num) ==
    [b \in 1..Len(mix_vad) |->
        [i \in 1..frame_num |->
            SumSeq(Slice(mix_vad[b], (i - 1) * self.hop, (i - 1) * self.hop + self.winlen))]]

\* mutant of VadLabel: a frame counts as active when its sum is not negative
VadLabelGeq(vad_frames) ==
    [b \in 1..Len(vad_frames) |->
        [i \in 1..Len(vad_frames[b]) |-> IF vad_frames[b][i] >= 0 THEN "1.0" ELSE "0.1"]]

\* lines 132-135: torch.where(vad_frames > 0, ones_vec, ones_vec * 0.1)
VadLabel(vad_frames) ==
    [b \in 1..Len(vad_frames) |->
        [i \in 1..Len(vad_frames[b]) |-> IF vad_frames[b][i] > 0 THEN "1.0" ELSE "0.1"]]

\* lines 137-138: zeros of est.shape[2] frames, the first vad_label.shape[1]
\* of them assigned from vad_label
VadMask(vad_label, frame_num, est_frames) ==
    [b \in 1..Len(vad_label) |->
        [i \in 1..est_frames |-> IF i <= frame_num THEN vad_label[b][i] ELSE "0.0"]]

\* lines 147-151: self.pmsqe(power(est_stft), power(clean_stft), vad_mask).mean()
pmsqe_score_vad(self, est_stft, clean_stft, vad_mask) ==
    [fn |-> "pmsqe_mean", pmsqe |-> self.pmsqe, est |-> est_stft, clean |-> clean_stft,
     args |-> <<power(est_stft), power(clean_stft)>>, vad_mask |-> vad_mask]

\* lines 112-145.  torch.zeros with a negative size (line 123), the move to
\* a device that is not there (line 135) and the assignment of more label
\* frames than the mask has (line 138) raise RuntimeError.
APC_SNR_forward(self, est_time_domain, clean, mix_vad, cuda) ==
    LET clean_stft == EngineCall(self.model_stft, clean)
        est        == EngineCall(self.model_stft, est_time_domain)
        est_frames == EngineFrames(self.model_stft, Len(est_time_domain[1]))
        frame_num  == VadFrameNum(self, mix_vad)
        vad_label  == VadLabel(VadFrames(self, mix_vad, frame_num))
        vad_mask   == VadMask(vad_label, frame_num, est_frames)
        Fail(line) == [err |-> "RuntimeError", line |-> line, val |-> <<>>]
    IN  IF frame_num < 0 THEN Fail(123)
        ELSE IF ~cuda THEN Fail(135)
        ELSE IF frame_num > est_frames THEN Fail(138)
        ELSE [err |-> "", line |-> 145,
              val |-> << ScaledSnr(self, est, clean_stft),
                         pmsqe_score_vad(self, est, clean_stft, vad_mask) >>]

\* the signal lengths, voice-activity values and frame sizes explored
VadLens == {1, 2, 3, 4, 5}

VadValues == {-1, 0, 1}

VadSizes == {[winlen |-> w, hop |-> h] : w \in {2, 4}, h \in {1, 2}}

\* voice-activity signals: one item, or an item and a silent one
VadSignals ==
    UNION {{<<v>> : v \in SeqsOfLen(VadValues, n)} \cup
           {<<v, [k \in 1..n |-> 0]>> : v \in SeqsOfLen(VadValues, n)} : n \in VadLens}

\* the (est_time_domain, clean) signals: all ones, of a length of their own
VadWavs(B) == {[b \in 1..B |-> [k \in 1..n |-> 1]] : n \in {1, 3, 5}}

VadInputs ==
    UNION {{[size |-> z, mix_vad |-> v, wav |-> w, cuda |-> c] :
              z \in VadSizes, w \in VadWavs(Len(v)), c \in BOOLEAN} : v \in VadSignals}

VadInit ==
    /\ sig = <<>>
    /\ stft = NoSTFT("none")
    /\ ctor = NoCtor
    /\ ret = NoRet
    /\ wavs = <<>>
    /\ hopsObj = <<>>
    /\ apcArgs = <<>>
    /\ apc = <<>>
    /\ apcRet = <<>>
    /\ apcLog = {}
    /\ fnArgs \in VadInputs
    /\ fnRet = NoFnRet

VadForward ==
    /\ fnRet.fn = "none"
    /\ LET self == APC_SNR_init(fnArgs.size.hop, fnArgs.size.winlen,
                                ApcSizes.theta, ApcSizes.mag_bins)
       IN  fnRet' = [fn |-> "APC_SNR.forward", self |-> self,
                     val |-> APC_SNR_forward(self, fnArgs.wav, fnArgs.wav,
                                             fnArgs.mix_vad, fnArgs.cuda)]
    /\ UNCHANGED <<fnArgs, stftVars, apcVars>>

VadNext ==
    \/ VadForward

\* the voice-activity variant alone
SpecVAD == VadInit /\ [][VadNext]_vars

\* C15 (voice-activity mask): whenever APC_SNR.forward passes a mask to the
\* perceptual scorer, with frame_num = 1 + (len(mix_vad) - winlen) // hop the
\* mask has one weight per spectral frame; for frames i < frame_num the
\* weight is 1.0 if mix_vad summed over [i hop, i hop + winlen) is > 0 and
\* 0.1 otherwise; for frames i >= frame_num it is 0; no other weight occurs.
C15_VadMask ==
    (fnRet.fn = "APC_SNR.forward" /\ fnRet.val.err = "") =>
        LET mask      == fnRet.val.val[2].vad_mask
            L         == Len(fnArgs.mix_vad[1])
            winlen    == fnArgs.size.winlen
            hop       == fnArgs.size.hop
            frame_num == 1 + (L - winlen) \div hop
            T         == EngineFrames(fnRet.self.model_stft, Len(fnArgs.wav[1]))
        IN  /\ Len(mask) = Len(fnArgs.mix_vad)
            /\ \A b \in 1..Len(mask) :
                /\ Len(mask[b]) = T
                /\ \A i \in 0..(T - 1) :
                    LET cover == {k \in (i * hop)..(i * hop + winlen - 1) : k < L}
                        total == SumOver(cover, [k \in cover |-> fnArgs.mix_vad[b][k + 1]])
                    IN  /\ mask[b][i + 1] \in {"1.0", "0.1", "0.0"}
                        /\ (i < frame_num /\ total > 0) => mask[b][i + 1] = "1.0"
                        /\ (i < frame_num /\ total <= 0) => mask[b][i + 1] = "0.1"
                        /\ i >= frame_num => mask[b][i + 1] = "0.0"

\* a mask that holds all three weights, the 0.1 once for a frame that sums
\* to zero and once for one that sums to less
C15_Witness ==
    /\ fnRet.fn = "APC_SNR.forward"
    /\ fnRet.val.err = ""
    /\ LET mask == fnRet.val.val[2].vad_mask[1]
           hop  == fnArgs.size.hop
           Sum(i) == SumSeq(Slice(fnArgs.mix_vad[1], (i - 1) * hop,
                                  (i - 1) * hop + fnArgs.size.winlen))
       IN  /\ {mask[i] : i \in 1..Len(mask)} = {"1.0", "0.1", "0.0"}
           /\ \E i \in 1..Len(mask) : mask[i] = "0.1" /\ Sum(i) = 0
           /\ \E i \in 1..Len(mask) : mask[i] = "0.1" /\ Sum(i) < 0


---------------------------------------------------------------------------
(* Claims about the arguments the STFT engine accepts (checked under       *)
(* SpecSTFT).  An exception of any class counts as the failure the claim   *)
(* names: the source has no ConfigError or ShapeError class of its own.    *)

\* a construction has been attempted
Constructed == ctor.win.kind # "none"

\* the instance answers calls
Built == stft.status = "ok"

\* C16 (as stated): short input.  Whenever transform is called on a signal of
\* fewer than frame_length samples, centred or not, the call raises and
\* returns no frames.
C16_ShortInputFails ==
    (ret.op = "transform" /\ Len(sig.data[1]) < stft.nframe)
        => (ret.err # "" /\ ret.val.num = <<>>)

\* C17 (as stated): non-positive hop.  A construction asked for with
\* hop_length <= 0 fails, so every instance that exists has nhop >= 1, and no
\* transform, inverse, forward or nLen call runs with a hop <= 0.
C17_NoNonPositiveHop ==
    /\ (Constructed /\ ctor.nhop <= 0) => ~Built
    /\ Built => stft.nhop >= 1
    /\ ret.op \in {"transform", "inverse", "forward", "nLen"} => stft.nhop >= 1

\* n is a power of two
IsPow2(n) == \E e \in 0..n : Pow2(e) = n

\* C18: default transform size.  A construction that gives no nfft and asks
\* for the plain "hann" window succeeds; when nfft is not given the instance's
\* nfft is a power of two, at least nframe, and no smaller power of two is at
\* least nframe (so it equals nframe when nframe is a power of two); when
\* nfft is given the instance's nfft is the given one.
C18_DefaultTransformSize ==
    /\ (/\ Constructed
        /\ ~ctor.nfft_given
        /\ ctor.win.kind = "str"
        /\ ctor.win.name = "hann") => Built
    /\ (Built /\ ~ctor.nfft_given)
        => /\ IsPow2(stft.nfft)
           /\ stft.nfft >= ctor.nframe
           /\ \A M \in 1..(stft.nfft - 1) : IsPow2(M) => M < ctor.nframe
           /\ IsPow2(ctor.nframe) => stft.nfft = ctor.nframe
    /\ (Built /\ ctor.nfft_given) => stft.nfft = ctor.nfft

\* a frame length that is not a power of two was built with the default size,
\* and an instance was built with an explicit size larger than its frame
C18_Witness ==
    /\ Built
    /\ ~ctor.nfft_given
    /\ ctor.nframe = 3
    /\ stft.nfft = 4
    /\ ret.op = "transform"
    /\ ret.err = ""

\* C19 (as stated): invalid sizes.  A construction asked for with an explicit
\* transform size smaller than the frame length, or with a non-positive frame
\* length or transform size, fails and leaves no kernels.
C19_InvalidSizesRejected ==
    (/\ Constructed
     /\ \/ (ctor.nfft_given /\ ctor.nfft < ctor.nframe)
        \/ ctor.nframe <= 0
        \/ (ctor.nfft_given /\ ctor.nfft <= 0))
        => /\ ~Built
           /\ stft.weight.num = <<>>
           /\ stft.inv_weight.num = <<>>

\* the base family of a "<family> sqrt" name, and the names of that form
SqrtNames == {[name |-> f \o " sqrt", family |-> f] : f \in KnownWindows}

\* the sizes of the construction are acceptable
SizesValid == ctor.nframe >= 1 /\ (ctor.nfft_given => ctor.nfft >= ctor.nframe)

\* C20 (as stated): square-root window variant.  With acceptable sizes, asking
\* for "<family> sqrt" of a supported family succeeds and the instance's
\* window has frame_length samples, each the square root of the family's
\* sample; asking for the plain family name succeeds and the window is the
\* family's window.
C20_SqrtWindow ==
    (Constructed /\ SizesValid /\ ctor.win.kind = "str")
        => /\ ctor.win.name \in KnownWindows
                => /\ Built
                   /\ stft.window = get_window(ctor.win.name, ctor.nframe)
           /\ \A s \in SqrtNames :
                ctor.win.name = s.name
                    => /\ Built
                       /\ Len(stft.window) = ctor.nframe
                       /\ \A k \in 1..ctor.nframe :
                            /\ stft.window[k] >= 0
                            /\ stft.window[k] * stft.window[k]
                                 = get_window(s.family, ctor.nframe)[k] * WinDen


---------------------------------------------------------------------------
(* Claims about the kernels (checked under SpecSTFT).                      *)

\* the matrix c * I of n rows
ScaledEye(c, n) == [i \in 1..n |-> [j \in 1..n |-> IF i = j THEN c ELSE 0]]

\* the instance as the constructor leaves it (the kernels are built there
\* and nowhere else), with the sizes the kernel claims speak of
KernelCase == Built /\ ret.op = "init" /\ stft.nfft >= stft.nframe

\* C21: kernel orthogonality.  For every instance with nfft >= nframe the
\* unwindowed forward kernel K (2 (nfft // 2 + 1) rows, nframe columns) has
\* full column rank, the matrix P the inverse kernel is made of is the
\* Moore-Penrose pseudo-inverse of K (K P K = K, P K P = P, K P and P K
\* symmetric), and the product of the two over the frame dimension, P K, is
\* the nframe x nframe identity matrix.  P is kept as Pn / d, so that each
\* equation is one between integer matrices.
C21_PinvTimesKernel ==
    KernelCase =>
        LET K  == UnwindowedKernel(stft.nfft, stft.nframe)
            P  == PinvT(K)
            d  == P.den
            Pn == Transpose(P.num)
            KP == MatMul(K, Pn)
            PK == MatMul(Pn, K)
        IN  /\ NRows(K) = 2 * ((stft.nfft \div 2) + 1)
            /\ NCols(K) = stft.nframe
            /\ Det(MatMul(Transpose(K), K)) # 0
            /\ d # 0
            /\ PK = ScaledEye(d, stft.nframe)
            /\ MatMul(KP, K) = MatMul(ScaledEye(d, NRows(K)), K)
            /\ MatMul(PK, Pn) = MatMul(ScaledEye(d, stft.nframe), Pn)
            /\ KP = Transpose(KP)
            /\ PK = Transpose(PK)

\* an instance of four samples a frame and a transform of size four, built
\* with the all-ones window, so that its kernels are the unwindowed ones
C21_Witness ==
    /\ KernelCase
    /\ stft.nframe = 4
    /\ stft.nfft = 4
    /\ ctor.win.kind = "ndarray"
    /\ stft.weight.num = TimesWindow(UnwindowedKernel(4, 4), stft.window)
    /\ stft.inv_weight.num = TimesWindow(PinvT(UnwindowedKernel(4, 4)).num, stft.window)


---------------------------------------------------------------------------
(* Tensors of Features.py: a shape and the elements in row-major           *)
(* (contiguous) order, which is the order torch's reshape reads them in.   *)

RECURSIVE ProdOf(_)
ProdOf(s) == IF Len(s) = 0 THEN 1 ELSE s[1] * ProdOf(Tail(s))

\* number of elements one step along dimension i (from 1) skips
StrideOf(shape, i) == ProdOf(SubSeq(shape, i + 1, Len(shape)))

\* position (from 0) of the element at index idx (each from 0)
FlatIndex(shape, idx) ==
    SumOver(1..Len(shape), [i \in 1..Len(shape) |-> idx[i] * StrideOf(shape, i)])

\* index (each from 0) of the element at position p (from 0)
Unflatten(shape, p) ==
    Tup([i \in 1..Len(shape) |-> (p \div StrideOf(shape, i)) % shape[i]])

\* x[idx]
TAt(t, idx) == t.flat[FlatIndex(t.shape, idx) + 1]

\* the tensor of a shape whose element at idx is f[idx]
TBuild(shape, f) ==
    [shape |-> shape,
     flat  |-> Tup([p \in 1..ProdOf(shape) |-> f[Unflatten(shape, p - 1)]])]

\* all indices of a shape
IndicesOf(shape) == {Unflatten(shape, p) : p \in 0..(ProdOf(shape) - 1)}

\* x.permute(*dims): dimension i of the result is dimension dims[i] of x
\* (dims from 0)
TPermute(t, dims) ==
    LET shape == Tup([i \in 1..Len(dims) |-> t.shape[dims[i] + 1]])
    IN  TBuild(shape,
               [idx \in IndicesOf(shape) |->
                    TAt(t, [j \in 1..Len(dims) |->
                              idx[CHOOSE i \in 1..Len(dims) : dims[i] = j - 1]])])

\* x.transpose(d0, d1)
TTranspose(t, d0, d1) ==
    TPermute(t, [i \in 1..Len(t.shape) |->
                    IF i - 1 = d0 THEN d1 ELSE IF i - 1 = d1 THEN d0 ELSE i - 1])

\* x.reshape(*shape): the same elements in the same row-major order
TReshape(t, shape) == [shape |-> shape, flat |-> t.flat]

\* all tensors of a shape with elements from S
TensorsOf(shape, S) ==
    {[shape |-> shape, flat |-> f] : f \in SeqsOfLen(S, ProdOf(shape))}


---------------------------------------------------------------------------
(* Features.STFT.forward.  torch.stft is a library routine: its value is   *)
(* kept as a term that records the row it was computed from, the bin, the  *)
(* frame and the part (0 real, 1 imaginary), so that only the routing of   *)
(* rows through reshape and permute is computed here.                      *)

\* row r (from 0) of a 2-D tensor
RowOf(t, r) == Tup([k \in 1..t.shape[2] |-> TAt(t, <<r, k - 1>>)])

\* torch.view_as_real(torch.stft(x, n_fft, hop_length, ..., center=True,
\* pad_mode="constant", onesided=True, return_complex=True)) for x of shape
\* (rows, T): shape (rows, n_fft // 2 + 1, 1 + T // hop_length, 2)
torch_stft(self, x) ==
    LET shape == <<x.shape[1], (self.n_fft \div 2) + 1,
                   1 + (x.shape[2] \div self.hop_length), 2>>
    IN  TBuild(shape,
               [idx \in IndicesOf(shape) |->
                    [stft_of |-> RowOf(x, idx[1]), bin |-> idx[2],
                     frame |-> idx[3], part |-> idx[4]]])

\* mutant of FlattenChannels: the reshape without the transpose before it
FlattenChannelsNoTranspose(x) ==
    TReshape(x, <<x.shape[1] * x.shape[3], x.shape[2]>>)

\* lines 125-127: x.transpose(1, 2).reshape(B * C, T)
FlattenChannels(x) ==
    TReshape(TTranspose(x, 1, 2), <<x.shape[1] * x.shape[3], x.shape[2]>>)

\* lines 145-158: back to (batch, time, bins, 2, channels), or for a 2-D
\* input to (batch, time, bins, 2)
RestoreChannels(or_shape, stft_out) ==
    IF Len(or_shape) = 3
    THEN TPermute(TReshape(stft_out, <<or_shape[1], or_shape[3], stft_out.shape[2],
                                       stft_out.shape[3], stft_out.shape[4]>>),
                  <<0, 3, 2, 4, 1>>)
    ELSE TTranspose(stft_out, 2, 1)

\* Features.STFT.forward(x)
Features_STFT_forward(self, x) ==
    LET or_shape == x.shape
        x2 == IF Len(or_shape) = 3 THEN FlattenChannels(x) ELSE x
    IN  RestoreChannels(or_shape, torch_stft(self, x2))

\* sizes of the inputs tried: batch, time, channels
FeatDims == [batch |-> {1, 2}, time |-> {1, 2}, channels |-> {1, 2}]

FeatValues == {0, 1}

\* n_fft and hop_length in samples
FeatSelves == {[n_fft |-> 2, hop_length |-> h] : h \in {1, 2}}

\* x of shape (batch, time, channels) and of shape (batch, time)
FeatInputs ==
    UNION {TensorsOf(<<b, t, c>>, FeatValues) :
             b \in FeatDims.batch, t \in FeatDims.time, c \in FeatDims.channels}
    \cup UNION {TensorsOf(<<b, t>>, FeatValues) :
             b \in FeatDims.batch, t \in FeatDims.time}

FeatInit ==
    /\ sig = <<>>
    /\ stft = NoSTFT("none")
    /\ ctor = NoCtor
    /\ ret = NoRet
    /\ wavs = <<>>
    /\ hopsObj = <<>>
    /\ apcArgs = <<>>
    /\ apc = <<>>
    /\ apcRet = <<>>
    /\ apcLog = {}
    /\ fnArgs \in {[self |-> f, x |-> x] : f \in FeatSelves, x \in FeatInputs}
    /\ fnRet = NoFnRet

FeatForward ==
    /\ fnRet.fn = "none"
    /\ fnRet' = [fn |-> "Features.STFT.forward",
                 val |-> Features_STFT_forward(fnArgs.self, fnArgs.x)]
    /\ UNCHANGED <<fnArgs, stftVars, apcVars>>

FeatNext ==
    \/ FeatForward

\* Features.STFT.forward alone
SpecFeat == FeatInit /\ [][FeatNext]_vars

\* the single-channel signal x[b, :, c] as a batch of one: shape (1, T)
ChannelSignal(x, b, c) ==
    TBuild(<<1, x.shape[2]>>,
           [idx \in IndicesOf(<<1, x.shape[2]>>) |-> TAt(x, <<b, idx[2], c>>)])

\* C22: multi-channel analysis.  For every input of shape (batch, time,
\* channels) the result has shape (batch, frames, bins, 2, channels), and its
\* slice for batch b and channel c is, entry for entry, what forward returns
\* for the single-channel signal x[b, :, c].
C22_MultiChannel ==
    (fnRet.fn = "Features.STFT.forward" /\ Len(fnArgs.x.shape) = 3)
        => LET x == fnArgs.x
               out == fnRet.val
           IN  /\ Len(out.shape) = 5
               /\ out.shape[1] = x.shape[1]
               /\ out.shape[5] = x.shape[3]
               /\ \A b \in 0..(x.shape[1] - 1), c \in 0..(x.shape[3] - 1) :
                    LET one == Features_STFT_forward(fnArgs.self, ChannelSignal(x, b, c))
                    IN  /\ one.shape = <<1, out.shape[2], out.shape[3], out.shape[4]>>
                        /\ \A idx \in IndicesOf(one.shape) :
                             TAt(out, <<b, idx[2], idx[3], idx[4], c>>) = TAt(one, idx)

\* two items of two channels and two samples, the four (batch, channel)
\* signals all different
C22_Witness ==
    /\ fnRet.fn = "Features.STFT.forward"
    /\ fnArgs.x.shape = <<2, 2, 2>>
    /\ Cardinality({ChannelSignal(fnArgs.x, b, c).flat : b \in 0..1, c \in 0..1}) = 4
    /\ fnRet.val.shape = <<2, 2, 2, 2, 2>>


\* C23: inverse-kernel ordering.  For every instance with nfft >= nframe the
\* inverse kernel has a value, each of its entries is the entry of the
\* transposed pseudo-inverse of the UNWINDOWED kernel times the window sample
\* of its column, each entry of the forward kernel is the entry of the
\* unwindowed kernel times the same window sample, and that window is the
\* one the instance keeps.
C23_InverseKernelOrdering ==
    KernelCase =>
        LET K == UnwindowedKernel(stft.nfft, stft.nframe)
            P == PinvT(K)
            w == stft.window
        IN  /\ Len(w) = stft.nframe
            /\ stft.inv_weight.den # 0
            /\ stft.weight.den # 0
            /\ NRows(stft.inv_weight.num) = NRows(K)
            /\ NRows(stft.weight.num) = NRows(K)
            /\ \A c \in 1..NRows(K), m \in 1..stft.nframe :
                /\ stft.inv_weight.num[c][m] * P.den * WinDen
                     = P.num[c][m] * w[m] * stft.inv_weight.den
                /\ stft.weight.num[c][m] * WinDen
                     = K[c][m] * w[m] * stft.weight.den

\* an instance built with the uneven window (0.5, 1.0): windowing before the
\* pseudo-inversion would give another inverse kernel
C23_Witness ==
    /\ KernelCase
    /\ stft.nframe = 2
    /\ stft.nfft = 2
    /\ stft.window = <<WinDen \div 2, WinDen>>
    /\ stft.inv_weight.num # <<>>


---------------------------------------------------------------------------
(* Claims about the compositor's calls (checked under SpecAPC).            *)

\* C24 (as stated): Acoustic Scaler inputs.  In every forward call, at every
\* resolution, the Acoustic Scaler is called with the power spectra of the
\* estimate and of the clean signal, the two tensors the Perceptual Scorer is
\* called with at that resolution, and each spectrum is multiplied by the
\* scale tensor returned for it.
C24_ScalerGetsPower ==
    apcRet.op = "forward" =>
        LET snr == apcRet.val[1].sum
            pm  == apcRet.val[2].sum
        IN  /\ Len(snr) = Len(pm)
            /\ \A k \in 1..Len(snr) :
                /\ snr[k].scales.fn = "scaler"
                /\ snr[k].scales.args = <<power(snr[k].est), power(snr[k].clean)>>
                /\ snr[k].scales.args = pm[k].args


---------------------------------------------------------------------------
(* Claims about the round trip of the STFT engine (checked under SpecSTFT) *)

\* C25: pack/unpack consistency.  In every forward call that returns, the
\* tensor inverse hands to the transposed convolution, packed from what
\* transform returned, has for every item 2 (nfft // 2 + 1) channels of
\* num_frames entries, and its entry [b, c, t] is the convolution output
\* [b, c, t]: the response of kernel row c at frame t.
C25_PackUnpack ==
    (ret.op = "forward" /\ ret.err = "") =>
        LET spec   == transform(stft, sig).val.num
            inputs == PackChannels(spec)
        IN  /\ Len(inputs) = Len(sig.data)
            /\ \A b \in 1..Len(inputs) :
                /\ Len(inputs[b]) = 2 * NumFreqBins
                /\ \A c \in 1..(2 * NumFreqBins) :
                    /\ Len(inputs[b][c]) = ExpFrames
                    /\ \A t \in 1..ExpFrames :
                        inputs[b][c][t] = RowResponse(b, c, (t - 1) * stft.nhop)

\* a forward call on three bins and at least two frames whose convolution
\* output has a non-zero imaginary channel and a real channel that differs
\* from it
C25_Witness ==
    /\ ret.op = "forward"
    /\ ret.err = ""
    /\ NumFreqBins = 3
    /\ ExpFrames >= 2
    /\ \E t \in 1..ExpFrames :
        /\ RowResponse(1, 5, (t - 1) * stft.nhop) # 0
        /\ RowResponse(1, 5, (t - 1) * stft.nhop) # RowResponse(1, 2, (t - 1) * stft.nhop)


\* number of samples forward returns for a signal of n samples, from the
\* frame count and the overlap-add length:
\* (frames - 1) hop + nframe - 2 pad with frames = 1 + (n + 2 pad - nframe) // hop
RoundTripLen(n) ==
    (((n + 2 * ExpPad - stft.nframe) \div stft.nhop) * stft.nhop)
        + stft.nframe - 2 * ExpPad

\* C26 (as stated): reconstructed length.  For every instance and every
\* length n >= nframe, nLen(n) is (n // nhop) * nhop and is the number of
\* samples inverse(transform(x)) returns for a signal of n samples (the
\* signal at hand among them); for a list nLen returns that number for each
\* element.
C26_ReconstructedLength ==
    (ret.op = "nLen" /\ ret.err = "") =>
        LET lens == ret.arg.val
            vals == IF ret.arg.kind = "int" THEN <<ret.val>> ELSE ret.val
            out  == forward(stft, sig)
        IN  /\ Len(vals) = Len(lens)
            /\ \A k \in 1..Len(lens) :
                lens[k] >= stft.nframe =>
                    /\ vals[k] = (lens[k] \div stft.nhop) * stft.nhop
                    /\ vals[k] = RoundTripLen(lens[k])
                    /\ lens[k] = Len(sig.data[1]) =>
                        /\ out.err = ""
                        /\ \A b \in 1..Len(out.val) : Len(out.val[b]) = vals[k]


\* the window's only zero sample is its first one
ZeroOnlyAtStart(w) ==
    /\ Len(w) >= 1
    /\ w[1] = 0
    /\ \A m \in 2..Len(w) : w[m] # 0

\* C27 (as stated): normalisation coverage.  For every instance with
\* 1 <= nhop <= nframe, centred or not, whose window is zero at its first
\* sample only, every sample inverse returns after trimming lies in a frame
\* at a position where the window is not zero, so that its divisor
\* coff + 1e-8 exceeds 1e-8.
C27_NormalizationCoverage ==
    (/\ ret.op \in {"inverse", "forward"}
     /\ ret.err = ""
     /\ stft.nhop >= 1
     /\ stft.nhop <= stft.nframe
     /\ ZeroOnlyAtStart(stft.window))
        => \A b \in 1..Len(ret.val.val) :
             \A k \in 1..Len(ret.val.val[b]) :
                LET n == stft.pad + k - 1
                    T == ((Len(ret.val.val[b]) + 2 * stft.pad - stft.nframe)
                            \div stft.nhop) + 1
                IN  /\ ret.val.val[b][k].coff > 0
                    /\ \E t \in Covering(n, T) :
                         stft.window[n - t * stft.nhop + 1] # 0


\* the hop sizes of the auxiliary engines of an instance, as a set
AuxHopSet(self) == {AuxHops(self)[i] : i \in 1..Len(AuxHops(self))}

\* C28 (as stated): the caller's hop list is not modified.  After every
\* construction the caller's hops object is what was passed, and all
\* compositors constructed one after another from that object with one
\* model_hop hold the same set of auxiliary hop sizes.
C28_HopsUnchanged ==
    apc.status # "none" =>
        /\ hopsObj = apcArgs.hops
        /\ apc.status = "ok" =>
            \A k \in 1..Len(apcArgs.earlier) :
                AuxHopSet(apcArgs.earlier[k]) = AuxHopSet(apc.self)


---------------------------------------------------------------------------
(* Features.DCT.  The module imports torch, torch.nn and logging (lines    *)
(* 28-30) and nothing else, so the name `math` that __init__ reads at line *)
(* 713 is not bound.                                                       *)

\* DCT(input_size, n_out, ortho_norm): the exception __init__ raises.  Lines
\* 701-705 raise ValueError when n_out > input_size; otherwise line 713,
\* torch.cos(math.pi / float(input_size) * (n + 0.5) * k), looks `math` up
\* and raises NameError, so that no dct_mat is assigned and no instance is
\* returned.
DCT_init(input_size, n_out, ortho_norm) ==
    IF n_out > input_size
    THEN [status |-> "ValueError", input_size |-> input_size, n_out |-> n_out,
          ortho_norm |-> ortho_norm]
    ELSE [status |-> "NameError", input_size |-> input_size, n_out |-> n_out,
          ortho_norm |-> ortho_norm]

\* sizes of the inputs tried
DctDims == [batch |-> {1, 2}, time |-> {1, 2}, features |-> {1, 2}, channels |-> {1, 2}]

\* the numbers of elements of the input tensors tried
DctNumel == 1..(2 * 2 * 2)

DctShapes ==
    {sh \in {<<b, t, f, c>> : b \in DctDims.batch, t \in DctDims.time,
                              f \in DctDims.features, c \in DctDims.channels} :
        ProdOf(sh) \in DctNumel}
    \cup {<<b, t, f>> : b \in DctDims.batch, t \in DctDims.time, f \in DctDims.features}

DctInputs ==
    UNION {{[input_size |-> sh[3], n_out |-> n, ortho_norm |-> o, x |-> x] :
                n \in 1..(sh[3] + 1), o \in BOOLEAN, x \in TensorsOf(sh, FeatValues)} :
           sh \in DctShapes}

DctInit ==
    /\ sig = <<>>
    /\ stft = NoSTFT("none")
    /\ ctor = NoCtor
    /\ ret = NoRet
    /\ wavs = <<>>
    /\ hopsObj = <<>>
    /\ apcArgs = <<>>
    /\ apc = <<>>
    /\ apcRet = <<>>
    /\ apcLog = {}
    /\ fnArgs \in DctInputs
    /\ fnRet = NoFnRet

\* compute = DCT(input_size, n_out, ortho_norm); compute(x): the constructor
\* raises, so compute is never bound and forward never runs
DctCall ==
    /\ fnRet.fn = "none"
    /\ LET self == DCT_init(fnArgs.input_size, fnArgs.n_out, fnArgs.ortho_norm)
       IN  fnRet' = [fn |-> "DCT.__init__", self |-> self, err |-> self.status,
                     val |-> <<>>]
    /\ UNCHANGED <<fnArgs, stftVars, apcVars>>

DctNext ==
    \/ DctCall

\* Features.DCT alone
SpecDCT == DctInit /\ [][DctNext]_vars

\* C29 (as stated): multi-channel DCT.  For every 4-D input of shape (batch,
\* time, features, channels) and every n_out <= input_size, DCT.forward
\* returns a tensor, of shape (batch, time, n_out, channels).  (The claim
\* goes on to compare the channel slices of that tensor with the results
\* for the 3-D inputs x[..., c]; it has that to say of returned tensors
\* only.)
C29_DctMultiChannel ==
    (/\ fnRet.fn # "none"
     /\ Len(fnArgs.x.shape) = 4
     /\ fnArgs.n_out <= fnArgs.input_size)
        => /\ fnRet.fn = "DCT.forward"
           /\ fnRet.err = ""
           /\ fnRet.val.shape = <<fnArgs.x.shape[1], fnArgs.x.shape[2],
                                  fnArgs.n_out, fnArgs.x.shape[4]>>

====
